---- MODULE Spec2Model ----
(***************************************************************************)
(* ZKBoard relay network: the Semaphore group contract (incremental        *)
(* Merkle tree with root history, proof gateway) and the ZKBoard contract  *)
(* (deposits, relay requests, direct posts).  Every externally invoked     *)
(* function is one atomic transaction; a revert restores the pre-state.    *)
(* Amounts are in units of 0.001 ether.                                    *)
(***************************************************************************)
EXTENDS Integers, Naturals, Sequences, FiniteSets, TLC

(* ------------------------------ bounds --------------------------------- *)
MaxTreeDepth == 2
MaxMessages == 2

(* ------------------------- program constants --------------------------- *)
MIN_DEPOSIT == 50
COST_PER_MESSAGE == 1
BoardDepth == 20
MinDepth == 1
MaxDepth == 32

(* ------------------------------ domains -------------------------------- *)
Users == {"u1", "u2"}
Board == "board"
ZeroAddr == "0x0"
BoardGid == 1
OtherGid == 2
Gids == {BoardGid, OtherGid}
\* Identity commitments; each registers with the board at most once.
Commitments == {5}
DepthInputs == (0 .. MaxTreeDepth) \cup {MaxDepth + 1}
Nullifiers == {1, 2}
Messages == {1}
Fees == {COST_PER_MESSAGE - 1, COST_PER_MESSAGE + 1}
RequestIds == 0 .. MaxMessages
BogusRoot == 0
\* Content hashes passed to flagMessage, and the accounts that flag.
ContentHashes == {1, 2}
Flaggers == Users \cup {"u3", "u4"}
JoinValues == {MIN_DEPOSIT - 1, MIN_DEPOSIT}
\* The same, and the empty amount a caller can send once its wallet is spent.
RejoinValues == JoinValues \cup {0}

(* ------------------------ external primitives -------------------------- *)
\* PoseidonT3.hash: a deterministic two-input hash into the field.
PoseidonHash(a, b) == (a * 1009 + b * 7 + 13) % 1000003

\* keccak256(abi.encodePacked(x)): a deterministic 16-bit stand-in digest.
Keccak(x) == (x * 48271 + 11213) % 65536

\* uint256(keccak256(...)) >> 8
ShiftRight8(x) == x \div 256

\* The proof the external Groth16 verifier accepts for given public inputs.
ProofFor(pubSignals, depth) ==
    (pubSignals[1] + 2 * pubSignals[2] + 3 * pubSignals[3]
       + 4 * pubSignals[4] + depth) % 5

\* ISemaphoreVerifier.verifyProof: pure, answers with a boolean.
VerifierVerifyProof(proof, pubSignals, depth) ==
    proof = ProofFor(pubSignals, depth)

RECURSIVE Pow2(_)
Pow2(n) == IF n = 0 THEN 1 ELSE 2 * Pow2(n - 1)

(* ------------------------------- state --------------------------------- *)
VARIABLES
    groups,           \* Semaphore.groups: gid -> Group
    validRoots,       \* Semaphore.validRoots: gid -> set of roots mapped to true
    initialized,      \* ZKBoard.initialized
    deposits,         \* ZKBoard.deposits
    relayRequests,    \* ZKBoard.relayRequests: id -> RelayRequest
    nextRequestId,    \* ZKBoard.nextRequestId
    messageCounter,   \* ZKBoard.messageCounter
    nullifierHashes,  \* ZKBoard.nullifierHashes: set of nullifiers mapped to true
    messageCount,     \* ZKBoard.messageCount
    boardBalance,     \* ether held by the ZKBoard contract
    wallet,           \* ether held by each account (gas not counted)
    lastCall,         \* the last transaction: function, caller, outcome
    nullifierWins,    \* history: successful gated actions per nullifier
    execWins,         \* history: successful executeRelay calls per request id
    insertWins,       \* history: successful inserts per group
    leaves,           \* history: the leaves inserted into each group, in order
    createWins,       \* history: successful createRelayRequest calls
    indexWins,        \* history: successful creates and direct posts per index
    reentry,          \* history: the last call made from a payout's recipient
    MessagePosted,    \* history: the messageId of each MessagePosted event, in emission order
    credits,          \* ZKBoard with credits: credits
    flagCount,        \* ZKBoard with credits: flagCount
    hasUserFlagged    \* ZKBoard with credits: hasUserFlagged, as a set of <<user, contentHash>>

semaphoreVars == <<groups, validRoots>>
boardVars == <<initialized, deposits, relayRequests, nextRequestId,
               messageCounter, nullifierHashes, messageCount>>
etherVars == <<boardBalance, wallet>>
historyVars == <<nullifierWins, execWins, insertWins, leaves, createWins,
                 indexWins, reentry, MessagePosted>>
\* The storage that only the contract with credits and moderation has.
creditVars == <<credits, flagCount, hasUserFlagged>>

progVars == <<groups, validRoots, initialized, deposits, relayRequests,
              nextRequestId, messageCounter, nullifierHashes, messageCount,
              boardBalance, wallet>>
vars == <<groups, validRoots, initialized, deposits, relayRequests,
          nextRequestId, messageCounter, nullifierHashes, messageCount,
          boardBalance, wallet, lastCall, nullifierWins, execWins, insertWins,
          leaves, createWins, indexWins, reentry, MessagePosted, credits,
          flagCount,
          hasUserFlagged>>

\* A storage slot of Semaphore.groups that was never written.
EmptyGroup ==
    [admin |-> ZeroAddr, depth |-> 0, size |-> 0, root |-> 0,
     filledSubtrees |-> <<>>]

\* A storage slot of ZKBoard.relayRequests that was never written.
EmptyRequest ==
    [merkleTreeRoot |-> 0, nullifierHash |-> 0, proof |-> 0, message |-> 0,
     relayFee |-> 0, requester |-> ZeroAddr, executed |-> FALSE,
     messageIndex |-> 0]

\* No call was made from the recipient of a payout.
NoReentry == [op |-> "none"]

NoId == 0 - 1

Call(op, caller, gid, id, nullifier, verifier, err) ==
    [op |-> op, caller |-> caller, gid |-> gid, id |-> id,
     nullifier |-> nullifier, verifier |-> verifier, err |-> err]

\* A reverted board transaction is recorded without its sender.
Sender(caller, err) == IF err = "OK" THEN caller ELSE ZeroAddr

Init ==
    /\ groups = [g \in Gids |-> EmptyGroup]
    /\ validRoots = [g \in Gids |-> {}]
    /\ initialized = FALSE
    /\ deposits = [u \in Users |-> 0]
    /\ relayRequests = [i \in RequestIds |-> EmptyRequest]
    /\ nextRequestId = 0
    /\ messageCounter = 0
    /\ nullifierHashes = {}
    /\ messageCount = 0
    /\ boardBalance = 0
    /\ wallet = [u \in Users |-> IF u = "u1" THEN MIN_DEPOSIT ELSE 0]
    /\ lastCall = Call("deploy", ZeroAddr, 0, NoId, 0, "notCalled", "OK")
    /\ nullifierWins = [n \in Nullifiers |-> 0]
    /\ execWins = [i \in RequestIds |-> 0]
    /\ insertWins = [g \in Gids |-> 0]
    /\ leaves = [g \in Gids |-> <<>>]
    /\ createWins = 0
    /\ indexWins = [i \in RequestIds |-> 0]
    /\ reentry = NoReentry
    /\ MessagePosted = <<>>
    /\ credits = [u \in Users |-> 0]
    /\ flagCount = [h \in ContentHashes |-> 0]
    /\ hasUserFlagged = {}

(* ---------------------------- Semaphore -------------------------------- *)

\* The empty-leaf value of a group.
ZeroLeaf(gid) == ShiftRight8(Keccak(gid))

\* Group.zeros[0 .. depth-1] as written by createGroup's loop, zeros[i+1] being
\* level i.  The mapping is written once and never again, so it is computed
\* from the group id where addMember reads it.
RECURSIVE ZerosUpTo(_, _)
ZerosUpTo(gid, n) ==
    IF n = 0 THEN <<>>
    ELSE IF n = 1 THEN <<ZeroLeaf(gid)>>
    ELSE LET prev == ZerosUpTo(gid, n - 1)
         IN  Append(prev, PoseidonHash(prev[n - 1], prev[n - 1]))

\* The value of currentZero when createGroup's loop ends.
EmptyRoot(gid, depth) ==
    LET z == ZerosUpTo(gid, depth)
    IN  PoseidonHash(z[depth], z[depth])

\* Variant: the depth is checked before the existence of the group.
createGroupErr_depthFirst(gid, depth) ==
    IF ~(depth >= MinDepth /\ depth <= MaxDepth) THEN "InvalidDepth"
    ELSE IF groups[gid].depth # 0 THEN "AlreadyExists"
    ELSE "OK"

createGroupErr(gid, depth) ==
    IF groups[gid].depth # 0 THEN "AlreadyExists"
    ELSE IF ~(depth >= MinDepth /\ depth <= MaxDepth) THEN "InvalidDepth"
    ELSE "OK"

createGroupGroups(gid, depth, admin) ==
    [groups EXCEPT ![gid] =
        [admin |-> admin, depth |-> depth, size |-> 0,
         root |-> EmptyRoot(gid, depth),
         filledSubtrees |-> [i \in 1 .. depth |-> 0]]]

\* Variant: the root of the empty tree is not recorded.
createGroupRoots_noEmptyRoot(gid, depth) ==
    validRoots

createGroupRoots(gid, depth) ==
    [validRoots EXCEPT ![gid] = @ \cup {EmptyRoot(gid, depth)}]

\* The loop of addMember from level i on: the filled subtrees and the node
\* that leaves the loop.
RECURSIVE InsertWalk(_, _, _, _, _, _)
InsertWalk(i, depth, leafIndex, currentNode, filled, zeros) ==
    IF i >= depth THEN [filledSubtrees |-> filled, node |-> currentNode]
    ELSE IF leafIndex % 2 = 0
         THEN InsertWalk(i + 1, depth, leafIndex \div 2,
                         PoseidonHash(currentNode, zeros[i + 1]),
                         [filled EXCEPT ![i + 1] = currentNode], zeros)
         ELSE InsertWalk(i + 1, depth, leafIndex \div 2,
                         PoseidonHash(filled[i + 1], currentNode),
                         filled, zeros)

\* Variant: the caller is not checked.
addMemberErr_noAdminCheck(sender, gid) ==
    IF ~(groups[gid].size < Pow2(groups[gid].depth)) THEN "Full"
    ELSE "OK"

\* Variant: the capacity check is off by one.
addMemberErr_offByOne(sender, gid) ==
    IF groups[gid].admin # sender THEN "NotAdmin"
    ELSE IF ~(groups[gid].size <= Pow2(groups[gid].depth)) THEN "Full"
    ELSE "OK"

addMemberErr(sender, gid) ==
    IF groups[gid].admin # sender THEN "NotAdmin"
    ELSE IF ~(groups[gid].size < Pow2(groups[gid].depth)) THEN "Full"
    ELSE "OK"

\* Variant: the walk always starts from the first leaf position.
addMemberWalk_firstSlot(gid, identityCommitment) ==
    InsertWalk(0, groups[gid].depth, 0, identityCommitment,
               groups[gid].filledSubtrees, ZerosUpTo(gid, groups[gid].depth))

\* Variant: the walk starts one leaf position too far.
addMemberWalk_nextSlot(gid, identityCommitment) ==
    InsertWalk(0, groups[gid].depth, groups[gid].size + 1, identityCommitment,
               groups[gid].filledSubtrees, ZerosUpTo(gid, groups[gid].depth))

addMemberWalk(gid, identityCommitment) ==
    InsertWalk(0, groups[gid].depth, groups[gid].size, identityCommitment,
               groups[gid].filledSubtrees, ZerosUpTo(gid, groups[gid].depth))

\* Variant: the size is left as it was.
addMemberGroups_sizeKept(gid, identityCommitment) ==
    LET w == addMemberWalk(gid, identityCommitment)
    IN  [groups EXCEPT ![gid].filledSubtrees = w.filledSubtrees,
                       ![gid].root = w.node]

addMemberGroups(gid, identityCommitment) ==
    LET w == addMemberWalk(gid, identityCommitment)
    IN  [groups EXCEPT ![gid].filledSubtrees = w.filledSubtrees,
                       ![gid].root = w.node,
                       ![gid].size = @ + 1]

\* Variant: only the latest root is kept valid.
addMemberRoots_latestOnly(gid, identityCommitment) ==
    [validRoots EXCEPT ![gid] = {addMemberWalk(gid, identityCommitment).node}]

\* Variant: the root produced by the insert is not recorded.
addMemberRoots_rootDropped(gid, identityCommitment) ==
    validRoots

addMemberRoots(gid, identityCommitment) ==
    [validRoots EXCEPT ![gid] = @ \cup {addMemberWalk(gid, identityCommitment).node}]

\* Semaphore.verifyProof: reverts on an unknown root, otherwise hands the
\* verifier's answer back to the caller.
\* Variant: a root is accepted when it is valid for any group.
verifyProofErr_anyGroup(gid, merkleTreeRoot) ==
    IF \A g \in Gids : merkleTreeRoot \notin validRoots[g]
    THEN "UnknownRoot" ELSE "OK"

verifyProofErr(gid, merkleTreeRoot) ==
    IF merkleTreeRoot \notin validRoots[gid] THEN "UnknownRoot" ELSE "OK"

\* Variant: the signal and the nullifier hash change places in the vector.
verifyProof_swapped(gid, merkleTreeRoot, signal, nullifierHash, externalNullifier, proof) ==
    VerifierVerifyProof(proof,
        <<merkleTreeRoot, signal, nullifierHash, externalNullifier>>,
        groups[gid].depth)

verifyProof(gid, merkleTreeRoot, signal, nullifierHash, externalNullifier, proof) ==
    VerifierVerifyProof(proof,
        <<merkleTreeRoot, nullifierHash, signal, externalNullifier>>,
        groups[gid].depth)

\* Direct transactions to the Semaphore contract.
createGroup(caller, gid, depth, admin) ==
    LET err == createGroupErr(gid, depth) IN
    /\ lastCall' = Call("createGroup", caller, gid, NoId, 0, "notCalled", err)
    /\ IF err = "OK"
       THEN /\ groups' = createGroupGroups(gid, depth, admin)
            /\ validRoots' = createGroupRoots(gid, depth)
       ELSE UNCHANGED semaphoreVars
    /\ UNCHANGED <<boardVars, etherVars, historyVars>>
    /\ UNCHANGED creditVars

\* Variant: the caller is not compared with the stored admin.
updateGroupAdmin_anyCaller(caller, gid, newAdmin) ==
    /\ lastCall' = Call("updateGroupAdmin", caller, gid, NoId, 0, "notCalled", "OK")
    /\ groups' = [groups EXCEPT ![gid].admin = newAdmin]
    /\ UNCHANGED <<validRoots, boardVars, etherVars, historyVars>>
    /\ UNCHANGED creditVars

updateGroupAdmin(caller, gid, newAdmin) ==
    LET err == IF groups[gid].admin # caller THEN "NotAdmin" ELSE "OK" IN
    /\ lastCall' = Call("updateGroupAdmin", caller, gid, NoId, 0, "notCalled", err)
    /\ IF err = "OK"
       THEN groups' = [groups EXCEPT ![gid].admin = newAdmin]
       ELSE UNCHANGED groups
    /\ UNCHANGED <<validRoots, boardVars, etherVars, historyVars>>
    /\ UNCHANGED creditVars

addMember(caller, gid, identityCommitment) ==
    LET err == addMemberErr(caller, gid) IN
    /\ lastCall' = Call("addMember", caller, gid, NoId, 0, "notCalled", err)
    /\ IF err = "OK"
       THEN /\ groups' = addMemberGroups(gid, identityCommitment)
            /\ validRoots' = addMemberRoots(gid, identityCommitment)
            /\ insertWins' = [insertWins EXCEPT ![gid] = @ + 1]
            /\ leaves' = [leaves EXCEPT ![gid] = Append(@, identityCommitment)]
       ELSE UNCHANGED <<semaphoreVars, insertWins, leaves>>
    /\ UNCHANGED <<boardVars, etherVars, nullifierWins, execWins, createWins,
                   indexWins, reentry, MessagePosted>>
    /\ UNCHANGED creditVars

\* What the verifier answered inside a call, if it was reached.
Verdict(reached, accepted) ==
    IF ~reached THEN "notCalled"
    ELSE IF accepted THEN "accepted" ELSE "rejected"

\* A direct call of Semaphore.verifyProof, a view function: the answer is
\* recorded, nothing is written.
verifyProofCall(caller, gid, merkleTreeRoot, signal, nullifierHash, externalNullifier, proof) ==
    LET err == verifyProofErr(gid, merkleTreeRoot) IN
    /\ lastCall' = Call("verifyProof", caller, gid, NoId, nullifierHash,
                        Verdict(err = "OK",
                                verifyProof(gid, merkleTreeRoot, signal,
                                            nullifierHash, externalNullifier,
                                            proof)),
                        err)
    /\ UNCHANGED <<semaphoreVars, boardVars, etherVars, historyVars>>
    /\ UNCHANGED creditVars

(* ----------------------------- ZKBoard --------------------------------- *)

\* uint256(keccak256(abi.encodePacked(message))) >> 8
SignalOf(message) == ShiftRight8(Keccak(message))

\* Variant: the initialized flag is not read.
initializeBoardErr_noFlagCheck ==
    createGroupErr(BoardGid, BoardDepth)

initializeBoardErr ==
    IF initialized THEN "AlreadyInitialized"
    ELSE createGroupErr(BoardGid, BoardDepth)

initializeBoard(caller) ==
    LET err == initializeBoardErr IN
    /\ lastCall' = Call("initializeBoard", Sender(caller, err), BoardGid, NoId, 0, "notCalled", err)
    /\ IF err = "OK"
       THEN /\ initialized' = TRUE
            /\ groups' = createGroupGroups(BoardGid, BoardDepth, Board)
            /\ validRoots' = createGroupRoots(BoardGid, BoardDepth)
       ELSE UNCHANGED <<initialized, semaphoreVars>>
    /\ UNCHANGED <<deposits, relayRequests, nextRequestId, messageCounter,
                   nullifierHashes, messageCount, etherVars, historyVars>>
    /\ UNCHANGED creditVars

\* Variant: the amount sent is not compared with the minimum deposit.
joinGroupWithDepositErr_noMinimum(value) ==
    addMemberErr(Board, BoardGid)

joinGroupWithDepositErr(value) ==
    IF ~(value >= MIN_DEPOSIT) THEN "BelowMinimum"
    ELSE addMemberErr(Board, BoardGid)

\* Variant: a failure of the nested addMember call is swallowed, the deposit
\* is credited all the same.
joinGroupWithDeposit_noRollback(caller, identityCommitment, value) ==
    LET err == joinGroupWithDepositErr(value) IN
    /\ value <= wallet[caller]
    /\ err = "OK" => groups[BoardGid].size < Cardinality(Commitments)
    /\ lastCall' = Call("joinGroupWithDeposit", Sender(caller, err), BoardGid, NoId, 0, "notCalled", err)
    /\ IF err = "OK"
       THEN /\ groups' = addMemberGroups(BoardGid, identityCommitment)
            /\ validRoots' = addMemberRoots(BoardGid, identityCommitment)
            /\ insertWins' = [insertWins EXCEPT ![BoardGid] = @ + 1]
            /\ leaves' = [leaves EXCEPT ![BoardGid] = Append(@, identityCommitment)]
       ELSE UNCHANGED <<semaphoreVars, insertWins, leaves>>
    /\ IF err # "BelowMinimum"
       THEN /\ deposits' = [deposits EXCEPT ![caller] = @ + value]
            /\ wallet' = [wallet EXCEPT ![caller] = @ - value]
            /\ boardBalance' = boardBalance + value
       ELSE UNCHANGED <<deposits, etherVars>>
    /\ UNCHANGED <<initialized, relayRequests, nextRequestId, messageCounter,
                   nullifierHashes, messageCount, nullifierWins, execWins,
                   createWins, indexWins, reentry, MessagePosted>>
    /\ UNCHANGED creditVars

joinGroupWithDeposit(caller, identityCommitment, value) ==
    LET err == joinGroupWithDepositErr(value) IN
    /\ value <= wallet[caller]
    /\ err = "OK" => groups[BoardGid].size < Cardinality(Commitments)
    /\ lastCall' = Call("joinGroupWithDeposit", Sender(caller, err), BoardGid, NoId, 0, "notCalled", err)
    /\ IF err = "OK"
       THEN /\ groups' = addMemberGroups(BoardGid, identityCommitment)
            /\ validRoots' = addMemberRoots(BoardGid, identityCommitment)
            /\ deposits' = [deposits EXCEPT ![caller] = @ + value]
            /\ wallet' = [wallet EXCEPT ![caller] = @ - value]
            /\ boardBalance' = boardBalance + value
            /\ insertWins' = [insertWins EXCEPT ![BoardGid] = @ + 1]
            /\ leaves' = [leaves EXCEPT ![BoardGid] = Append(@, identityCommitment)]
       ELSE UNCHANGED <<semaphoreVars, deposits, etherVars, insertWins, leaves>>
    /\ UNCHANGED <<initialized, relayRequests, nextRequestId, messageCounter,
                   nullifierHashes, messageCount, nullifierWins, execWins,
                   createWins, indexWins, reentry, MessagePosted>>
    /\ UNCHANGED creditVars

\* Variant: the fee has to exceed the floor.
createRelayRequestErr_strictFee(caller, nullifierHash, relayFee, messageIndex) ==
    IF ~(relayFee > COST_PER_MESSAGE) THEN "InsufficientFee"
    ELSE IF ~(deposits[caller] >= relayFee) THEN "InsufficientBalance"
    ELSE IF ~(messageIndex = messageCounter) THEN "StaleIndex"
    ELSE IF nullifierHash \in nullifierHashes THEN "NullifierAlreadyUsed"
    ELSE "OK"

createRelayRequestErr(caller, nullifierHash, relayFee, messageIndex) ==
    IF ~(relayFee >= COST_PER_MESSAGE) THEN "InsufficientFee"
    ELSE IF ~(deposits[caller] >= relayFee) THEN "InsufficientBalance"
    ELSE IF ~(messageIndex = messageCounter) THEN "StaleIndex"
    ELSE IF nullifierHash \in nullifierHashes THEN "NullifierAlreadyUsed"
    ELSE "OK"

\* Variant: every request is stored in the first slot.
createRelayRequest_firstSlot(caller, merkleTreeRoot, nullifierHash, proof, message, relayFee, messageIndex) ==
    LET err == createRelayRequestErr(caller, nullifierHash, relayFee, messageIndex) IN
    /\ messageCounter < MaxMessages
    /\ lastCall' = Call("createRelayRequest", Sender(caller, err), BoardGid, NoId,
                        nullifierHash, "notCalled", err)
    /\ IF err = "OK"
       THEN /\ messageCounter' = messageCounter + 1
            /\ nextRequestId' = nextRequestId + 1
            /\ relayRequests' = [relayRequests EXCEPT ![0] =
                   [merkleTreeRoot |-> merkleTreeRoot,
                    nullifierHash |-> nullifierHash,
                    proof |-> proof,
                    message |-> message,
                    relayFee |-> relayFee,
                    requester |-> caller,
                    executed |-> FALSE,
                    messageIndex |-> messageIndex]]
            /\ createWins' = createWins + 1
            /\ indexWins' = [indexWins EXCEPT ![messageIndex] = @ + 1]
       ELSE UNCHANGED <<messageCounter, nextRequestId, relayRequests,
                        createWins, indexWins>>
    /\ UNCHANGED <<semaphoreVars, initialized, deposits, nullifierHashes,
                   messageCount, etherVars, nullifierWins, execWins, insertWins,
                   leaves, reentry, MessagePosted>>
    /\ UNCHANGED creditVars

\* Variant: the fee is taken from the requester's deposit at creation.
createRelayRequest_debitsFee(caller, merkleTreeRoot, nullifierHash, proof, message, relayFee, messageIndex) ==
    LET err == createRelayRequestErr(caller, nullifierHash, relayFee, messageIndex) IN
    /\ messageCounter < MaxMessages
    /\ lastCall' = Call("createRelayRequest", Sender(caller, err), BoardGid, NoId,
                        nullifierHash, "notCalled", err)
    /\ IF err = "OK"
       THEN /\ messageCounter' = messageCounter + 1
            /\ nextRequestId' = nextRequestId + 1
            /\ relayRequests' = [relayRequests EXCEPT ![nextRequestId] =
                   [merkleTreeRoot |-> merkleTreeRoot,
                    nullifierHash |-> nullifierHash,
                    proof |-> proof,
                    message |-> message,
                    relayFee |-> relayFee,
                    requester |-> caller,
                    executed |-> FALSE,
                    messageIndex |-> messageIndex]]
            /\ createWins' = createWins + 1
            /\ deposits' = [deposits EXCEPT ![caller] = @ - relayFee]
            /\ indexWins' = [indexWins EXCEPT ![messageIndex] = @ + 1]
       ELSE UNCHANGED <<messageCounter, nextRequestId, relayRequests,
                        createWins, indexWins, deposits>>
    /\ UNCHANGED <<semaphoreVars, initialized, nullifierHashes,
                   messageCount, etherVars, nullifierWins, execWins, insertWins,
                   leaves, reentry, MessagePosted>>
    /\ UNCHANGED creditVars

\* Variant: the nullifier is marked used when the request is created.
createRelayRequest_marksNullifier(caller, merkleTreeRoot, nullifierHash, proof, message, relayFee, messageIndex) ==
    LET err == createRelayRequestErr(caller, nullifierHash, relayFee, messageIndex) IN
    /\ messageCounter < MaxMessages
    /\ lastCall' = Call("createRelayRequest", Sender(caller, err), BoardGid, NoId,
                        nullifierHash, "notCalled", err)
    /\ IF err = "OK"
       THEN /\ messageCounter' = messageCounter + 1
            /\ nextRequestId' = nextRequestId + 1
            /\ relayRequests' = [relayRequests EXCEPT ![nextRequestId] =
                   [merkleTreeRoot |-> merkleTreeRoot,
                    nullifierHash |-> nullifierHash,
                    proof |-> proof,
                    message |-> message,
                    relayFee |-> relayFee,
                    requester |-> caller,
                    executed |-> FALSE,
                    messageIndex |-> messageIndex]]
            /\ createWins' = createWins + 1
            /\ nullifierHashes' = nullifierHashes \cup {nullifierHash}
            /\ indexWins' = [indexWins EXCEPT ![messageIndex] = @ + 1]
       ELSE UNCHANGED <<messageCounter, nextRequestId, relayRequests,
                        createWins, indexWins, nullifierHashes>>
    /\ UNCHANGED <<semaphoreVars, initialized, deposits,
                   messageCount, etherVars, nullifierWins, execWins, insertWins,
                   leaves, reentry, MessagePosted>>
    /\ UNCHANGED creditVars

createRelayRequest(caller, merkleTreeRoot, nullifierHash, proof, message, relayFee, messageIndex) ==
    LET err == createRelayRequestErr(caller, nullifierHash, relayFee, messageIndex) IN
    /\ messageCounter < MaxMessages
    /\ lastCall' = Call("createRelayRequest", Sender(caller, err), BoardGid, NoId,
                        nullifierHash, "notCalled", err)
    /\ IF err = "OK"
       THEN /\ messageCounter' = messageCounter + 1
            /\ nextRequestId' = nextRequestId + 1
            /\ relayRequests' = [relayRequests EXCEPT ![nextRequestId] =
                   [merkleTreeRoot |-> merkleTreeRoot,
                    nullifierHash |-> nullifierHash,
                    proof |-> proof,
                    message |-> message,
                    relayFee |-> relayFee,
                    requester |-> caller,
                    executed |-> FALSE,
                    messageIndex |-> messageIndex]]
            /\ createWins' = createWins + 1
            /\ indexWins' = [indexWins EXCEPT ![messageIndex] = @ + 1]
       ELSE UNCHANGED <<messageCounter, nextRequestId, relayRequests,
                        createWins, indexWins>>
    /\ UNCHANGED <<semaphoreVars, initialized, deposits, nullifierHashes,
                   messageCount, etherVars, nullifierWins, execWins, insertWins,
                   leaves, reentry, MessagePosted>>
    /\ UNCHANGED creditVars

\* The result of semaphore.verifyProof for a stored request; executeRelay
\* does not read it.
RequestProofOK(request) ==
    verifyProof(BoardGid, request.merkleTreeRoot, SignalOf(request.message),
                request.nullifierHash, request.messageIndex, request.proof)

\* Variant: the executed flag is not checked.
executeRelayErr_noExecutedCheck(id) ==
    LET request == relayRequests[id] IN
    IF request.requester = ZeroAddr THEN "NotFound"
    ELSE IF request.nullifierHash \in nullifierHashes THEN "NullifierAlreadyUsed"
    ELSE IF verifyProofErr(BoardGid, request.merkleTreeRoot) # "OK"
         THEN verifyProofErr(BoardGid, request.merkleTreeRoot)
    ELSE IF deposits[request.requester] < request.relayFee THEN "ArithmeticUnderflow"
    ELSE IF boardBalance < request.relayFee THEN "TransferFailed"
    ELSE "OK"

\* Variant: the existence of the request is not checked.
executeRelayErr_noExistsCheck(id) ==
    LET request == relayRequests[id] IN
    IF request.executed THEN "AlreadyExecuted"
    ELSE IF request.nullifierHash \in nullifierHashes THEN "NullifierAlreadyUsed"
    ELSE IF verifyProofErr(BoardGid, request.merkleTreeRoot) # "OK"
         THEN verifyProofErr(BoardGid, request.merkleTreeRoot)
    ELSE IF deposits[request.requester] < request.relayFee THEN "ArithmeticUnderflow"
    ELSE IF boardBalance < request.relayFee THEN "TransferFailed"
    ELSE "OK"

\* Variant: the nullifier is not re-checked at execution.
executeRelayErr_noRecheck(id) ==
    LET request == relayRequests[id] IN
    IF request.executed THEN "AlreadyExecuted"
    ELSE IF request.requester = ZeroAddr THEN "NotFound"
    ELSE IF verifyProofErr(BoardGid, request.merkleTreeRoot) # "OK"
         THEN verifyProofErr(BoardGid, request.merkleTreeRoot)
    ELSE IF deposits[request.requester] < request.relayFee THEN "ArithmeticUnderflow"
    ELSE IF boardBalance < request.relayFee THEN "TransferFailed"
    ELSE "OK"

\* The statements after the checks write only the nullifier set and the
\* executed flag before the debit and the transfer, neither of which the
\* debit or the transfer reads, so the revert reason can be computed from
\* the pre-state.
executeRelayErr(id) ==
    LET request == relayRequests[id] IN
    IF request.executed THEN "AlreadyExecuted"
    ELSE IF request.requester = ZeroAddr THEN "NotFound"
    ELSE IF request.nullifierHash \in nullifierHashes THEN "NullifierAlreadyUsed"
    ELSE IF verifyProofErr(BoardGid, request.merkleTreeRoot) # "OK"
         THEN verifyProofErr(BoardGid, request.merkleTreeRoot)
    ELSE IF deposits[request.requester] < request.relayFee THEN "ArithmeticUnderflow"
    ELSE IF boardBalance < request.relayFee THEN "TransferFailed"
    ELSE "OK"

\* Variant: the requester is debited the flat message cost.
executeRelayDeposits_flatCost(request) ==
    [deposits EXCEPT ![request.requester] = @ - COST_PER_MESSAGE]

\* deposits[request.requester] -= request.relayFee
executeRelayDeposits(request) ==
    [deposits EXCEPT ![request.requester] = @ - request.relayFee]

executeRelayVerdict(id) ==
    LET request == relayRequests[id] IN
    Verdict(/\ ~request.executed
            /\ request.requester # ZeroAddr
            /\ request.nullifierHash \notin nullifierHashes
            /\ verifyProofErr(BoardGid, request.merkleTreeRoot) = "OK",
            RequestProofOK(request))

\* Variant: the event is emitted after messageCount is incremented.
executeRelay_emitsAfter(caller, id) ==
    LET request == relayRequests[id]
        err == executeRelayErr(id) IN
    /\ lastCall' = Call("executeRelay", Sender(caller, err), BoardGid, id,
                        request.nullifierHash, executeRelayVerdict(id), err)
    /\ IF err = "OK"
       THEN /\ nullifierHashes' = nullifierHashes \cup {request.nullifierHash}
            /\ relayRequests' = [relayRequests EXCEPT ![id].executed = TRUE]
            /\ deposits' = executeRelayDeposits(request)
            /\ boardBalance' = boardBalance - request.relayFee
            /\ wallet' = [wallet EXCEPT ![caller] = @ + request.relayFee]
            /\ messageCount' = messageCount + 1
            /\ nullifierWins' = [nullifierWins EXCEPT ![request.nullifierHash] = @ + 1]
            /\ execWins' = [execWins EXCEPT ![id] = @ + 1]
            /\ MessagePosted' = Append(MessagePosted, messageCount + 1)
            /\ UNCHANGED <<insertWins, leaves, createWins, indexWins, reentry>>
       ELSE UNCHANGED <<nullifierHashes, relayRequests, deposits, etherVars,
                        messageCount, historyVars>>
    /\ UNCHANGED <<semaphoreVars, initialized, nextRequestId, messageCounter>>
    /\ UNCHANGED creditVars

\* Variant: the nullifier of the executed request is not marked as used.
executeRelay_nullifierUnmarked(caller, id) ==
    LET request == relayRequests[id]
        err == executeRelayErr(id) IN
    /\ lastCall' = Call("executeRelay", Sender(caller, err), BoardGid, id,
                        request.nullifierHash, executeRelayVerdict(id), err)
    /\ IF err = "OK"
       THEN /\ relayRequests' = [relayRequests EXCEPT ![id].executed = TRUE]
            /\ deposits' = executeRelayDeposits(request)
            /\ boardBalance' = boardBalance - request.relayFee
            /\ wallet' = [wallet EXCEPT ![caller] = @ + request.relayFee]
            /\ messageCount' = messageCount + 1
            /\ nullifierWins' = [nullifierWins EXCEPT ![request.nullifierHash] = @ + 1]
            /\ execWins' = [execWins EXCEPT ![id] = @ + 1]
            /\ MessagePosted' = Append(MessagePosted, messageCount)
            /\ UNCHANGED <<nullifierHashes, insertWins, leaves, createWins,
                           indexWins, reentry>>
       ELSE UNCHANGED <<nullifierHashes, relayRequests, deposits, etherVars,
                        messageCount, historyVars>>
    /\ UNCHANGED <<semaphoreVars, initialized, nextRequestId, messageCounter>>
    /\ UNCHANGED creditVars

\* Variant: the executed request is deleted from the store.
executeRelay_deleted(caller, id) ==
    LET request == relayRequests[id]
        err == executeRelayErr(id) IN
    /\ lastCall' = Call("executeRelay", Sender(caller, err), BoardGid, id,
                        request.nullifierHash, executeRelayVerdict(id), err)
    /\ IF err = "OK"
       THEN /\ nullifierHashes' = nullifierHashes \cup {request.nullifierHash}
            /\ relayRequests' = [relayRequests EXCEPT ![id] = EmptyRequest]
            /\ deposits' = executeRelayDeposits(request)
            /\ boardBalance' = boardBalance - request.relayFee
            /\ wallet' = [wallet EXCEPT ![caller] = @ + request.relayFee]
            /\ messageCount' = messageCount + 1
            /\ nullifierWins' = [nullifierWins EXCEPT ![request.nullifierHash] = @ + 1]
            /\ execWins' = [execWins EXCEPT ![id] = @ + 1]
            /\ MessagePosted' = Append(MessagePosted, messageCount)
            /\ UNCHANGED <<insertWins, leaves, createWins, indexWins, reentry>>
       ELSE UNCHANGED <<nullifierHashes, relayRequests, deposits, etherVars,
                        messageCount, historyVars>>
    /\ UNCHANGED <<semaphoreVars, initialized, nextRequestId, messageCounter>>
    /\ UNCHANGED creditVars

\* Variant: a request is found only by its requester.
executeRelay_requesterOnly(caller, id) ==
    LET request == relayRequests[id]
        err == IF caller # request.requester /\ request.requester # ZeroAddr
               THEN "NotFound"
               ELSE executeRelayErr(id) IN
    /\ lastCall' = Call("executeRelay", Sender(caller, err), BoardGid, id,
                        request.nullifierHash, executeRelayVerdict(id), err)
    /\ IF err = "OK"
       THEN /\ nullifierHashes' = nullifierHashes \cup {request.nullifierHash}
            /\ relayRequests' = [relayRequests EXCEPT ![id].executed = TRUE]
            /\ deposits' = executeRelayDeposits(request)
            /\ boardBalance' = boardBalance - request.relayFee
            /\ wallet' = [wallet EXCEPT ![caller] = @ + request.relayFee]
            /\ messageCount' = messageCount + 1
            /\ nullifierWins' = [nullifierWins EXCEPT ![request.nullifierHash] = @ + 1]
            /\ execWins' = [execWins EXCEPT ![id] = @ + 1]
            /\ MessagePosted' = Append(MessagePosted, messageCount)
            /\ UNCHANGED <<insertWins, leaves, createWins, indexWins, reentry>>
       ELSE UNCHANGED <<nullifierHashes, relayRequests, deposits, etherVars,
                        messageCount, historyVars>>
    /\ UNCHANGED <<semaphoreVars, initialized, nextRequestId, messageCounter>>
    /\ UNCHANGED creditVars

executeRelay(caller, id) ==
    LET request == relayRequests[id]
        err == executeRelayErr(id) IN
    /\ lastCall' = Call("executeRelay", Sender(caller, err), BoardGid, id,
                        request.nullifierHash, executeRelayVerdict(id), err)
    /\ IF err = "OK"
       THEN /\ nullifierHashes' = nullifierHashes \cup {request.nullifierHash}
            /\ relayRequests' = [relayRequests EXCEPT ![id].executed = TRUE]
            /\ deposits' = executeRelayDeposits(request)
            /\ boardBalance' = boardBalance - request.relayFee
            /\ wallet' = [wallet EXCEPT ![caller] = @ + request.relayFee]
            /\ messageCount' = messageCount + 1
            /\ nullifierWins' = [nullifierWins EXCEPT ![request.nullifierHash] = @ + 1]
            /\ execWins' = [execWins EXCEPT ![id] = @ + 1]
            /\ MessagePosted' = Append(MessagePosted, messageCount)
            /\ UNCHANGED <<insertWins, leaves, createWins, indexWins, reentry>>
       ELSE UNCHANGED <<nullifierHashes, relayRequests, deposits, etherVars,
                        messageCount, historyVars>>
    /\ UNCHANGED <<semaphoreVars, initialized, nextRequestId, messageCounter>>
    /\ UNCHANGED creditVars

\* Variant: the nullifier is not checked on a direct post.
postMessageDirectErr_noNullifierCheck(caller, merkleTreeRoot, nullifierHash, messageIndex) ==
    IF ~(deposits[caller] >= COST_PER_MESSAGE) THEN "InsufficientBalance"
    ELSE IF ~(messageIndex = messageCounter) THEN "StaleIndex"
    ELSE verifyProofErr(BoardGid, merkleTreeRoot)

\* Variant: the index is not checked on a direct post.
postMessageDirectErr_noIndexCheck(caller, merkleTreeRoot, nullifierHash, messageIndex) ==
    IF ~(deposits[caller] >= COST_PER_MESSAGE) THEN "InsufficientBalance"
    ELSE IF nullifierHash \in nullifierHashes THEN "NullifierAlreadyUsed"
    ELSE verifyProofErr(BoardGid, merkleTreeRoot)

postMessageDirectErr(caller, merkleTreeRoot, nullifierHash, messageIndex) ==
    IF ~(deposits[caller] >= COST_PER_MESSAGE) THEN "InsufficientBalance"
    ELSE IF ~(messageIndex = messageCounter) THEN "StaleIndex"
    ELSE IF nullifierHash \in nullifierHashes THEN "NullifierAlreadyUsed"
    ELSE verifyProofErr(BoardGid, merkleTreeRoot)

postMessageDirectVerdict(caller, merkleTreeRoot, nullifierHash, proof, message, messageIndex) ==
    Verdict(/\ deposits[caller] >= COST_PER_MESSAGE
            /\ messageIndex = messageCounter
            /\ nullifierHash \notin nullifierHashes
            /\ verifyProofErr(BoardGid, merkleTreeRoot) = "OK",
            verifyProof(BoardGid, merkleTreeRoot, SignalOf(message),
                        nullifierHash, messageIndex, proof))

\* Variant: the caller is debited a relay fee above the message cost.
postMessageDirect_feeDebit(caller, merkleTreeRoot, nullifierHash, proof, message, messageIndex) ==
    LET err == postMessageDirectErr(caller, merkleTreeRoot, nullifierHash,
                                    messageIndex) IN
    /\ messageCounter < MaxMessages
    /\ lastCall' = Call("postMessageDirect", Sender(caller, err), BoardGid, NoId, nullifierHash,
                        postMessageDirectVerdict(caller, merkleTreeRoot,
                            nullifierHash, proof, message, messageIndex),
                        err)
    /\ IF err = "OK"
       THEN /\ nullifierHashes' = nullifierHashes \cup {nullifierHash}
            /\ deposits' = [deposits EXCEPT ![caller] = @ - (COST_PER_MESSAGE + 1)]
            /\ messageCounter' = messageCounter + 1
            /\ messageCount' = messageCount + 1
            /\ nullifierWins' = [nullifierWins EXCEPT ![nullifierHash] = @ + 1]
            /\ indexWins' = [indexWins EXCEPT ![messageIndex] = @ + 1]
            /\ MessagePosted' = Append(MessagePosted, messageCount)
       ELSE UNCHANGED <<nullifierHashes, deposits, messageCounter, messageCount,
                        nullifierWins, indexWins, MessagePosted>>
    /\ UNCHANGED <<semaphoreVars, initialized, relayRequests, nextRequestId,
                   etherVars, execWins, insertWins, leaves, createWins, reentry>>
    /\ UNCHANGED creditVars

\* Variant: the message counter is not advanced.
postMessageDirect_counterKept(caller, merkleTreeRoot, nullifierHash, proof, message, messageIndex) ==
    LET err == postMessageDirectErr(caller, merkleTreeRoot, nullifierHash,
                                    messageIndex) IN
    /\ messageCounter < MaxMessages
    /\ lastCall' = Call("postMessageDirect", Sender(caller, err), BoardGid, NoId, nullifierHash,
                        postMessageDirectVerdict(caller, merkleTreeRoot,
                            nullifierHash, proof, message, messageIndex),
                        err)
    /\ IF err = "OK"
       THEN /\ nullifierHashes' = nullifierHashes \cup {nullifierHash}
            /\ deposits' = [deposits EXCEPT ![caller] = @ - COST_PER_MESSAGE]
            /\ messageCounter' = messageCounter
            /\ messageCount' = messageCount + 1
            /\ nullifierWins' = [nullifierWins EXCEPT ![nullifierHash] = @ + 1]
            /\ indexWins' = [indexWins EXCEPT ![messageIndex] = @ + 1]
            /\ MessagePosted' = Append(MessagePosted, messageCount)
       ELSE UNCHANGED <<nullifierHashes, deposits, messageCounter, messageCount,
                        nullifierWins, indexWins, MessagePosted>>
    /\ UNCHANGED <<semaphoreVars, initialized, relayRequests, nextRequestId,
                   etherVars, execWins, insertWins, leaves, createWins, reentry>>
    /\ UNCHANGED creditVars

\* Variant: the posted message is not counted.
postMessageDirect_uncounted(caller, merkleTreeRoot, nullifierHash, proof, message, messageIndex) ==
    LET err == postMessageDirectErr(caller, merkleTreeRoot, nullifierHash,
                                    messageIndex) IN
    /\ messageCounter < MaxMessages
    /\ lastCall' = Call("postMessageDirect", Sender(caller, err), BoardGid, NoId, nullifierHash,
                        postMessageDirectVerdict(caller, merkleTreeRoot,
                            nullifierHash, proof, message, messageIndex),
                        err)
    /\ IF err = "OK"
       THEN /\ nullifierHashes' = nullifierHashes \cup {nullifierHash}
            /\ deposits' = [deposits EXCEPT ![caller] = @ - COST_PER_MESSAGE]
            /\ messageCounter' = messageCounter + 1
            /\ messageCount' = messageCount
            /\ nullifierWins' = [nullifierWins EXCEPT ![nullifierHash] = @ + 1]
            /\ indexWins' = [indexWins EXCEPT ![messageIndex] = @ + 1]
            /\ MessagePosted' = Append(MessagePosted, messageCount)
       ELSE UNCHANGED <<nullifierHashes, deposits, messageCounter, messageCount,
                        nullifierWins, indexWins, MessagePosted>>
    /\ UNCHANGED <<semaphoreVars, initialized, relayRequests, nextRequestId,
                   etherVars, execWins, insertWins, leaves, createWins, reentry>>
    /\ UNCHANGED creditVars

postMessageDirect(caller, merkleTreeRoot, nullifierHash, proof, message, messageIndex) ==
    LET err == postMessageDirectErr(caller, merkleTreeRoot, nullifierHash,
                                    messageIndex) IN
    /\ messageCounter < MaxMessages
    /\ lastCall' = Call("postMessageDirect", Sender(caller, err), BoardGid, NoId, nullifierHash,
                        postMessageDirectVerdict(caller, merkleTreeRoot,
                            nullifierHash, proof, message, messageIndex),
                        err)
    /\ IF err = "OK"
       THEN /\ nullifierHashes' = nullifierHashes \cup {nullifierHash}
            /\ deposits' = [deposits EXCEPT ![caller] = @ - COST_PER_MESSAGE]
            /\ messageCounter' = messageCounter + 1
            /\ messageCount' = messageCount + 1
            /\ nullifierWins' = [nullifierWins EXCEPT ![nullifierHash] = @ + 1]
            /\ indexWins' = [indexWins EXCEPT ![messageIndex] = @ + 1]
            /\ MessagePosted' = Append(MessagePosted, messageCount)
       ELSE UNCHANGED <<nullifierHashes, deposits, messageCounter, messageCount,
                        nullifierWins, indexWins, MessagePosted>>
    /\ UNCHANGED <<semaphoreVars, initialized, relayRequests, nextRequestId,
                   etherVars, execWins, insertWins, leaves, createWins, reentry>>
    /\ UNCHANGED creditVars

\* Variant: the deposit grows by twice the amount sent.
topUpDeposit_doubleCredit(caller, value) ==
    LET err == IF ~(value > 0) THEN "ZeroAmount" ELSE "OK" IN
    /\ value <= wallet[caller]
    /\ lastCall' = Call("topUpDeposit", Sender(caller, err), BoardGid, NoId, 0, "notCalled", err)
    /\ IF err = "OK"
       THEN /\ deposits' = [deposits EXCEPT ![caller] = @ + 2 * value]
            /\ wallet' = [wallet EXCEPT ![caller] = @ - value]
            /\ boardBalance' = boardBalance + value
       ELSE UNCHANGED <<deposits, etherVars>>
    /\ UNCHANGED <<semaphoreVars, initialized, relayRequests, nextRequestId,
                   messageCounter, nullifierHashes, messageCount, historyVars>>
    /\ UNCHANGED creditVars

topUpDeposit(caller, value) ==
    LET err == IF ~(value > 0) THEN "ZeroAmount" ELSE "OK" IN
    /\ value <= wallet[caller]
    /\ lastCall' = Call("topUpDeposit", Sender(caller, err), BoardGid, NoId, 0, "notCalled", err)
    /\ IF err = "OK"
       THEN /\ deposits' = [deposits EXCEPT ![caller] = @ + value]
            /\ wallet' = [wallet EXCEPT ![caller] = @ - value]
            /\ boardBalance' = boardBalance + value
       ELSE UNCHANGED <<deposits, etherVars>>
    /\ UNCHANGED <<semaphoreVars, initialized, relayRequests, nextRequestId,
                   messageCounter, nullifierHashes, messageCount, historyVars>>
    /\ UNCHANGED creditVars

withdrawDepositErr(caller) ==
    IF ~(deposits[caller] > 0) THEN "NothingToWithdraw"
    ELSE IF boardBalance < deposits[caller] THEN "TransferFailed"
    ELSE "OK"

withdrawDeposit(caller) ==
    LET amount == deposits[caller]
        err == withdrawDepositErr(caller) IN
    /\ lastCall' = Call("withdrawDeposit", Sender(caller, err), BoardGid, NoId, 0, "notCalled", err)
    /\ IF err = "OK"
       THEN /\ deposits' = [deposits EXCEPT ![caller] = 0]
            /\ boardBalance' = boardBalance - amount
            /\ wallet' = [wallet EXCEPT ![caller] = @ + amount]
       ELSE UNCHANGED <<deposits, etherVars>>
    /\ UNCHANGED <<semaphoreVars, initialized, relayRequests, nextRequestId,
                   messageCounter, nullifierHashes, messageCount, historyVars>>
    /\ UNCHANGED creditVars

(* --------------------- calls made from a payout ------------------------ *)

\* The board's storage and the ether balances, as a call nested in a payout
\* reads and writes them.
BoardState ==
    [nullifierHashes |-> nullifierHashes, relayRequests |-> relayRequests,
     deposits |-> deposits, boardBalance |-> boardBalance, wallet |-> wallet,
     messageCount |-> messageCount]

\* executeRelay's require chain, read from the state S.
executeRelayErrAt(S, id) ==
    LET request == S.relayRequests[id] IN
    IF request.executed THEN "AlreadyExecuted"
    ELSE IF request.requester = ZeroAddr THEN "NotFound"
    ELSE IF request.nullifierHash \in S.nullifierHashes THEN "NullifierAlreadyUsed"
    ELSE IF verifyProofErr(BoardGid, request.merkleTreeRoot) # "OK"
         THEN verifyProofErr(BoardGid, request.merkleTreeRoot)
    ELSE IF S.deposits[request.requester] < request.relayFee THEN "ArithmeticUnderflow"
    ELSE IF S.boardBalance < request.relayFee THEN "TransferFailed"
    ELSE "OK"

\* Variant: the payout is made before the nullifier and the request are
\* marked.
executeRelayAtPayout_unmarked(S, caller, id) ==
    LET request == S.relayRequests[id] IN
    [S EXCEPT !.deposits[request.requester] = @ - request.relayFee,
              !.boardBalance = @ - request.relayFee,
              !.wallet[caller] = @ + request.relayFee]

\* The state in which the recipient of executeRelay's transfer runs: the
\* nullifier is marked, the request executed, the requester debited and the
\* fee moved; messageCount is incremented after the transfer.
executeRelayAtPayout(S, caller, id) ==
    LET request == S.relayRequests[id] IN
    [S EXCEPT !.nullifierHashes = @ \cup {request.nullifierHash},
              !.relayRequests[id].executed = TRUE,
              !.deposits[request.requester] = @ - request.relayFee,
              !.boardBalance = @ - request.relayFee,
              !.wallet[caller] = @ + request.relayFee]

\* A whole successful executeRelay from the state S, whose recipient makes
\* no further call.
executeRelayAt(S, caller, id) ==
    [executeRelayAtPayout(S, caller, id) EXCEPT !.messageCount = @ + 1]

\* executeRelay called by a contract whose receive function calls
\* executeRelay(nested) once and ignores its failure. transfer forwards a
\* fixed gas stipend: either it does not cover the nested call (runs =
\* FALSE), the recipient runs out of gas and the whole call reverts, or the
\* nested call runs in the state at the payout.
executeRelayReentrant(caller, id, nested, runs) ==
    LET request == relayRequests[id]
        S1 == executeRelayAtPayout(BoardState, caller, id)
        nestedErr == executeRelayErrAt(S1, nested)
        S2 == IF nestedErr = "OK" THEN executeRelayAt(S1, caller, nested) ELSE S1
        S3 == [S2 EXCEPT !.messageCount = @ + 1]
        err == IF executeRelayErr(id) # "OK" THEN executeRelayErr(id)
               ELSE IF ~runs THEN "TransferFailed"
               ELSE "OK" IN
    /\ lastCall' = Call("executeRelay", Sender(caller, err), BoardGid, id,
                        request.nullifierHash, executeRelayVerdict(id), err)
    /\ IF err = "OK"
       THEN /\ nullifierHashes' = S3.nullifierHashes
            /\ relayRequests' = S3.relayRequests
            /\ deposits' = S3.deposits
            /\ boardBalance' = S3.boardBalance
            /\ wallet' = S3.wallet
            /\ messageCount' = S3.messageCount
            /\ nullifierWins' =
                 [n \in Nullifiers |->
                    nullifierWins[n]
                    + (IF n = request.nullifierHash THEN 1 ELSE 0)
                    + (IF nestedErr = "OK" /\ n = S1.relayRequests[nested].nullifierHash
                       THEN 1 ELSE 0)]
            /\ execWins' =
                 [i \in RequestIds |->
                    execWins[i] + (IF i = id THEN 1 ELSE 0)
                    + (IF nestedErr = "OK" /\ i = nested THEN 1 ELSE 0)]
            /\ reentry' = [op |-> "executeRelay", caller |-> caller, outer |-> id,
                           id |-> nested, err |-> nestedErr,
                           executed |-> S1.relayRequests[id].executed,
                           nullifierUsed |-> request.nullifierHash \in S1.nullifierHashes,
                           sameNullifier |-> S1.relayRequests[nested].nullifierHash
                                               = request.nullifierHash,
                           due |-> request.relayFee,
                           paid |-> S3.wallet[caller] - wallet[caller]]
            /\ MessagePosted' =
                 MessagePosted
                 \o (IF nestedErr = "OK" THEN <<S1.messageCount>> ELSE <<>>)
                 \o <<S2.messageCount>>
            /\ UNCHANGED <<insertWins, leaves, createWins, indexWins>>
       ELSE UNCHANGED <<nullifierHashes, relayRequests, deposits, etherVars,
                        messageCount, historyVars>>
    /\ UNCHANGED <<semaphoreVars, initialized, nextRequestId, messageCounter>>
    /\ UNCHANGED creditVars

\* withdrawDeposit's require and transfer, read from the state S.
withdrawDepositErrAt(S, caller) ==
    IF ~(S.deposits[caller] > 0) THEN "NothingToWithdraw"
    ELSE IF S.boardBalance < S.deposits[caller] THEN "TransferFailed"
    ELSE "OK"

\* Variant: the deposit is paid out before it is zeroed.
withdrawDepositAtPayout_payFirst(S, caller) ==
    [S EXCEPT !.boardBalance = @ - S.deposits[caller],
              !.wallet[caller] = @ + S.deposits[caller]]

\* The state in which the recipient of withdrawDeposit's transfer runs: the
\* deposit is zeroed and the amount moved.
withdrawDepositAtPayout(S, caller) ==
    [S EXCEPT !.deposits[caller] = 0,
              !.boardBalance = @ - S.deposits[caller],
              !.wallet[caller] = @ + S.deposits[caller]]

\* withdrawDeposit called by a contract whose receive function calls
\* withdrawDeposit once more and ignores its failure; runs as in
\* executeRelayReentrant.
withdrawDepositReentrant(caller, runs) ==
    LET amount == deposits[caller]
        S1 == withdrawDepositAtPayout(BoardState, caller)
        nestedErr == withdrawDepositErrAt(S1, caller)
        S2 == IF nestedErr = "OK" THEN withdrawDepositAtPayout(S1, caller) ELSE S1
        err == IF withdrawDepositErr(caller) # "OK" THEN withdrawDepositErr(caller)
               ELSE IF ~runs THEN "TransferFailed"
               ELSE "OK" IN
    /\ lastCall' = Call("withdrawDeposit", Sender(caller, err), BoardGid, NoId, 0, "notCalled", err)
    /\ IF err = "OK"
       THEN /\ deposits' = S2.deposits
            /\ boardBalance' = S2.boardBalance
            /\ wallet' = S2.wallet
            /\ reentry' = [op |-> "withdrawDeposit", caller |-> caller,
                           err |-> nestedErr,
                           depositAtPayout |-> S1.deposits[caller],
                           due |-> amount,
                           paid |-> S2.wallet[caller] - wallet[caller]]
            /\ UNCHANGED <<nullifierWins, execWins, insertWins, leaves, createWins,
                           indexWins, MessagePosted>>
       ELSE UNCHANGED <<deposits, etherVars, historyVars>>
    /\ UNCHANGED <<semaphoreVars, initialized, relayRequests, nextRequestId,
                   messageCounter, nullifierHashes, messageCount>>
    /\ UNCHANGED creditVars

(* ---------------- ZKBoard with credits and moderation ----------------- *)

\* The contract with explicit credits shares its storage layout, its
\* initializeBoard and the require chains of joinGroupWithDeposit,
\* executeRelay and withdrawDeposit with the deposit-only contract; its
\* functions are modelled on the same variables, with credits, flagCount and
\* hasUserFlagged added.
MIN_FLAGS_TO_HIDE == 3

\* credits[msg.sender] += msg.value / COST_PER_MESSAGE
joinGroupWithDepositCredits(caller, identityCommitment, value) ==
    LET err == joinGroupWithDepositErr(value) IN
    /\ value <= wallet[caller]
    /\ err = "OK" => groups[BoardGid].size < Cardinality(Commitments)
    /\ lastCall' = Call("joinGroupWithDeposit", Sender(caller, err), BoardGid, NoId, 0, "notCalled", err)
    /\ IF err = "OK"
       THEN /\ groups' = addMemberGroups(BoardGid, identityCommitment)
            /\ validRoots' = addMemberRoots(BoardGid, identityCommitment)
            /\ deposits' = [deposits EXCEPT ![caller] = @ + value]
            /\ credits' = [credits EXCEPT ![caller] = @ + value \div COST_PER_MESSAGE]
            /\ wallet' = [wallet EXCEPT ![caller] = @ - value]
            /\ boardBalance' = boardBalance + value
            /\ insertWins' = [insertWins EXCEPT ![BoardGid] = @ + 1]
            /\ leaves' = [leaves EXCEPT ![BoardGid] = Append(@, identityCommitment)]
       ELSE UNCHANGED <<semaphoreVars, deposits, etherVars, insertWins, leaves,
                        credits>>
    /\ UNCHANGED <<initialized, relayRequests, nextRequestId, messageCounter,
                   nullifierHashes, messageCount, nullifierWins, execWins,
                   createWins, indexWins, reentry, MessagePosted>>
    /\ UNCHANGED <<flagCount, hasUserFlagged>>

topUpDepositCredits(caller, value) ==
    LET err == IF ~(value > 0) THEN "ZeroAmount" ELSE "OK" IN
    /\ value <= wallet[caller]
    /\ lastCall' = Call("topUpDeposit", Sender(caller, err), BoardGid, NoId, 0, "notCalled", err)
    /\ IF err = "OK"
       THEN /\ deposits' = [deposits EXCEPT ![caller] = @ + value]
            /\ credits' = [credits EXCEPT ![caller] = @ + value \div COST_PER_MESSAGE]
            /\ wallet' = [wallet EXCEPT ![caller] = @ - value]
            /\ boardBalance' = boardBalance + value
       ELSE UNCHANGED <<deposits, etherVars, credits>>
    /\ UNCHANGED <<semaphoreVars, initialized, relayRequests, nextRequestId,
                   messageCounter, nullifierHashes, messageCount, historyVars>>
    /\ UNCHANGED <<flagCount, hasUserFlagged>>

\* Variant: the credits of the caller are not checked.
createRelayRequestCreditsErr_noCreditCheck(caller, nullifierHash, relayFee, messageIndex) ==
    IF ~(deposits[caller] >= relayFee) THEN "InsufficientBalance"
    ELSE IF messageIndex # messageCounter THEN "StaleIndex"
    ELSE IF nullifierHash \in nullifierHashes THEN "NullifierAlreadyUsed"
    ELSE "OK"

\* The require chain of createRelayRequest: a credit, a deposit that covers
\* the fee, the current index, an unused nullifier.
createRelayRequestCreditsErr(caller, nullifierHash, relayFee, messageIndex) ==
    IF ~(credits[caller] > 0) THEN "InsufficientCredits"
    ELSE IF ~(deposits[caller] >= relayFee) THEN "InsufficientBalance"
    ELSE IF messageIndex # messageCounter THEN "StaleIndex"
    ELSE IF nullifierHash \in nullifierHashes THEN "NullifierAlreadyUsed"
    ELSE "OK"

createRelayRequestCredits(caller, merkleTreeRoot, nullifierHash, proof, message, relayFee, messageIndex) ==
    LET err == createRelayRequestCreditsErr(caller, nullifierHash, relayFee,
                                            messageIndex) IN
    /\ messageCounter < MaxMessages
    /\ lastCall' = Call("createRelayRequest", Sender(caller, err), BoardGid, NoId,
                        nullifierHash, "notCalled", err)
    /\ IF err = "OK"
       THEN /\ credits' = [credits EXCEPT ![caller] = @ - 1]
            /\ messageCounter' = messageCounter + 1
            /\ nextRequestId' = nextRequestId + 1
            /\ relayRequests' = [relayRequests EXCEPT ![nextRequestId] =
                   [merkleTreeRoot |-> merkleTreeRoot,
                    nullifierHash |-> nullifierHash,
                    proof |-> proof,
                    message |-> message,
                    relayFee |-> relayFee,
                    requester |-> caller,
                    executed |-> FALSE,
                    messageIndex |-> messageIndex]]
            /\ createWins' = createWins + 1
            /\ indexWins' = [indexWins EXCEPT ![messageIndex] = @ + 1]
       ELSE UNCHANGED <<messageCounter, nextRequestId, relayRequests,
                        createWins, indexWins, credits>>
    /\ UNCHANGED <<semaphoreVars, initialized, deposits, nullifierHashes,
                   messageCount, etherVars, nullifierWins, execWins, insertWins,
                   leaves, reentry, MessagePosted>>
    /\ UNCHANGED <<flagCount, hasUserFlagged>>

\* executeRelay debits the deposit and leaves the credits alone.
executeRelayCredits(caller, id) ==
    LET request == relayRequests[id]
        err == executeRelayErr(id) IN
    /\ lastCall' = Call("executeRelay", Sender(caller, err), BoardGid, id,
                        request.nullifierHash, executeRelayVerdict(id), err)
    /\ IF err = "OK"
       THEN /\ nullifierHashes' = nullifierHashes \cup {request.nullifierHash}
            /\ relayRequests' = [relayRequests EXCEPT ![id].executed = TRUE]
            /\ deposits' = executeRelayDeposits(request)
            /\ boardBalance' = boardBalance - request.relayFee
            /\ wallet' = [wallet EXCEPT ![caller] = @ + request.relayFee]
            /\ messageCount' = messageCount + 1
            /\ nullifierWins' = [nullifierWins EXCEPT ![request.nullifierHash] = @ + 1]
            /\ execWins' = [execWins EXCEPT ![id] = @ + 1]
            /\ MessagePosted' = Append(MessagePosted, messageCount)
            /\ UNCHANGED <<insertWins, leaves, createWins, indexWins, reentry>>
       ELSE UNCHANGED <<nullifierHashes, relayRequests, deposits, etherVars,
                        messageCount, historyVars>>
    /\ UNCHANGED <<semaphoreVars, initialized, nextRequestId, messageCounter>>
    /\ UNCHANGED creditVars

withdrawDepositCredits(caller) ==
    LET amount == deposits[caller]
        err == withdrawDepositErr(caller) IN
    /\ lastCall' = Call("withdrawDeposit", Sender(caller, err), BoardGid, NoId, 0, "notCalled", err)
    /\ IF err = "OK"
       THEN /\ deposits' = [deposits EXCEPT ![caller] = 0]
            /\ credits' = [credits EXCEPT ![caller] = 0]
            /\ boardBalance' = boardBalance - amount
            /\ wallet' = [wallet EXCEPT ![caller] = @ + amount]
       ELSE UNCHANGED <<deposits, etherVars, credits>>
    /\ UNCHANGED <<semaphoreVars, initialized, relayRequests, nextRequestId,
                   messageCounter, nullifierHashes, messageCount, historyVars>>
    /\ UNCHANGED <<flagCount, hasUserFlagged>>

\* Variant: a principal may flag the same message again.
flagMessageErr_noCheck(caller, contentHash) == "OK"

flagMessageErr(caller, contentHash) ==
    IF <<caller, contentHash>> \in hasUserFlagged THEN "AlreadyFlagged" ELSE "OK"

\* The id field of lastCall carries the content hash.
flagMessage(caller, contentHash) ==
    LET err == flagMessageErr(caller, contentHash) IN
    /\ lastCall' = Call("flagMessage", Sender(caller, err), BoardGid, contentHash,
                        0, "notCalled", err)
    /\ IF err = "OK"
       THEN /\ flagCount' = [flagCount EXCEPT ![contentHash] = @ + 1]
            /\ hasUserFlagged' = hasUserFlagged \cup {<<caller, contentHash>>}
       ELSE UNCHANGED <<flagCount, hasUserFlagged>>
    /\ UNCHANGED <<progVars, historyVars, credits>>

getThreshold == MIN_FLAGS_TO_HIDE

isMessageHidden(contentHash) == flagCount[contentHash] >= getThreshold

(* ------------------------------ inputs --------------------------------- *)

\* Amounts a caller may send with topUpDeposit: nothing, or the minimum
\* deposit.
TopUpValues(c) == {0, MIN_DEPOSIT}

\* What a client may submit as root and proof: the board's current root (none
\* before the board is initialised), with the proof the verifier accepts for
\* the public inputs or with a forged one.
Submissions(nullifierHash, message, messageIndex) ==
    LET current == groups[BoardGid].root
        good == ProofFor(<<current, nullifierHash, SignalOf(message), messageIndex>>,
                         groups[BoardGid].depth)
    IN  {[root |-> current, proof |-> good],
         [root |-> current, proof |-> (good + 1) % 5]}

\* The submission of an honest client: the board's current root with the
\* proof the verifier accepts.
HonestSubmissions(nullifierHash, message, messageIndex) ==
    LET current == groups[BoardGid].root
    IN  {[root |-> current,
          proof |-> ProofFor(<<current, nullifierHash, SignalOf(message),
                               messageIndex>>, groups[BoardGid].depth)]}

IndexInputs == {messageCounter, messageCounter + 1}

\* The index of clients that read the counter before and after the latest
\* successful create or direct post.
RaceIndexInputs == {i \in {messageCounter - 1, messageCounter} : i >= 0}

\* Fees at the edges of createRelayRequest's checks: below the floor, the
\* floor itself, and a whole minimum deposit.
FeeInputs == {COST_PER_MESSAGE - 1, COST_PER_MESSAGE, MIN_DEPOSIT}

\* Roots sent to Semaphore.verifyProof directly: one that no group holds, and
\* the current root and the empty-tree root of every group.
RootInputs ==
    {BogusRoot} \cup {groups[g].root : g \in Gids}
      \cup {EmptyRoot(g, groups[g].depth) : g \in {h \in Gids : groups[h].depth > 0}}

\* Proofs sent to Semaphore.verifyProof directly: the one the verifier accepts
\* for the public inputs and the group's depth, and a forged one.
ProofInputs(gid, merkleTreeRoot, nullifierHash, message, externalNullifier) ==
    LET good == ProofFor(<<merkleTreeRoot, nullifierHash, SignalOf(message),
                           externalNullifier>>, groups[gid].depth)
    IN  {good, (good + 1) % 5}

\* Direct calls of Semaphore.verifyProof.
verifyProofCalls ==
    \E c \in Users, g \in Gids, r \in RootInputs, n \in Nullifiers, m \in Messages :
       \E p \in ProofInputs(g, r, n, m, messageCounter) :
          verifyProofCall(c, g, r, SignalOf(m), n, messageCounter, p)

\* Leaves sent to Semaphore.addMember directly: an identity commitment or the
\* group's own empty-leaf value.
LeafInputs(gid) == Commitments \cup {ZeroLeaf(gid)}

\* Transactions sent to the board.
Next ==
    \/ \E c \in Users : initializeBoard(c)
    \/ \E c \in Users, ic \in Commitments, v \in JoinValues :
          joinGroupWithDeposit(c, ic, v)
    \/ \E c \in Users, n \in Nullifiers, m \in Messages, f \in Fees,
          i \in IndexInputs :
          \E s \in Submissions(n, m, i) :
             createRelayRequest(c, s.root, n, s.proof, m, f, i)
    \/ \E c \in Users, id \in RequestIds : executeRelay(c, id)
    \/ \E c \in Users, n \in Nullifiers, m \in Messages, i \in IndexInputs :
          \E s \in Submissions(n, m, i) :
             postMessageDirect(c, s.root, n, s.proof, m, i)
    \/ \E c \in Users : \E v \in TopUpValues(c) : topUpDeposit(c, v)
    \/ \E c \in Users : withdrawDeposit(c)

\* Transactions that reach the Semaphore contract, directly or through the board.
NextTree ==
    \/ \E c \in Users, g \in Gids, d \in DepthInputs, a \in Users :
          createGroup(c, g, d, a)
    \/ \E c \in Users, g \in Gids, a \in Users : updateGroupAdmin(c, g, a)
    \/ \E c \in Users, g \in Gids, ic \in Commitments : addMember(c, g, ic)
    \/ \E c \in Users : initializeBoard(c)
    \/ \E c \in Users, ic \in Commitments, v \in RejoinValues :
          joinGroupWithDeposit(c, ic, v)

\* A group managed directly by its admin, which may insert the empty-leaf
\* value as well as a commitment, next to the board's own group.
NextLeaf ==
    \/ \E c \in Users, d \in DepthInputs, a \in Users :
          createGroup(c, OtherGid, d, a)
    \/ \E c \in Users, ic \in LeafInputs(OtherGid) : addMember(c, OtherGid, ic)
    \/ \E c \in Users : initializeBoard(c)
    \/ \E c \in Users, ic \in Commitments, v \in JoinValues :
          joinGroupWithDeposit(c, ic, v)

\* The board's relay path next to direct calls of the proof gateway.
NextVerify ==
    \/ \E c \in Users : initializeBoard(c)
    \/ \E c \in Users, ic \in Commitments, v \in JoinValues :
          joinGroupWithDeposit(c, ic, v)
    \/ \E c \in Users, n \in Nullifiers, m \in Messages, f \in Fees,
          i \in IndexInputs :
          \E s \in Submissions(n, m, i) :
             createRelayRequest(c, s.root, n, s.proof, m, f, i)
    \/ \E c \in Users, id \in RequestIds : executeRelay(c, id)
    \/ verifyProofCalls

\* Two small groups, each created and filled by its own admin, next to
\* direct calls of the proof gateway.
NextRoots ==
    \/ \E c \in Users, g \in Gids : createGroup(c, g, MinDepth, c)
    \/ \E c \in Users, g \in Gids, ic \in Commitments : addMember(c, g, ic)
    \/ verifyProofCalls

\* Requests created with fees at the edges of the checks, and executed.
NextCreate ==
    \/ \E c \in Users : initializeBoard(c)
    \/ \E c \in Users : \E v \in TopUpValues(c) : topUpDeposit(c, v)
    \/ \E c \in Users, n \in Nullifiers, m \in Messages, f \in FeeInputs,
          i \in IndexInputs :
          \E s \in HonestSubmissions(n, m, i) :
             createRelayRequest(c, s.root, n, s.proof, m, f, i)
    \/ \E c \in Users, id \in RequestIds : executeRelay(c, id)

\* Clients racing for the message index with requests and direct posts.
NextRace ==
    \/ \E c \in Users : initializeBoard(c)
    \/ \E c \in Users : \E v \in TopUpValues(c) : topUpDeposit(c, v)
    \/ \E c \in Users, n \in Nullifiers, m \in Messages, f \in Fees,
          i \in RaceIndexInputs :
          \E s \in HonestSubmissions(n, m, i) :
             createRelayRequest(c, s.root, n, s.proof, m, f, i)
    \/ \E c \in Users, n \in Nullifiers, m \in Messages, i \in RaceIndexInputs :
          \E s \in HonestSubmissions(n, m, i) :
             postMessageDirect(c, s.root, n, s.proof, m, i)

\* The board after initializeBoard and a topUpDeposit of the minimum deposit
\* by every account.
InitReenter ==
    /\ groups = [g \in Gids |-> IF g = BoardGid
                                THEN [admin |-> Board, depth |-> BoardDepth,
                                      size |-> 0,
                                      root |-> EmptyRoot(BoardGid, BoardDepth),
                                      filledSubtrees |-> [i \in 1 .. BoardDepth |-> 0]]
                                ELSE EmptyGroup]
    /\ validRoots = [g \in Gids |-> IF g = BoardGid
                                    THEN {EmptyRoot(BoardGid, BoardDepth)}
                                    ELSE {}]
    /\ initialized = TRUE
    /\ deposits = [u \in Users |-> MIN_DEPOSIT]
    /\ relayRequests = [i \in RequestIds |-> EmptyRequest]
    /\ nextRequestId = 0
    /\ messageCounter = 0
    /\ nullifierHashes = {}
    /\ messageCount = 0
    /\ boardBalance = MIN_DEPOSIT * Cardinality(Users)
    /\ wallet = [u \in Users |-> 0]
    /\ lastCall = Call("topUpDeposit", "u1", BoardGid, NoId, 0, "notCalled", "OK")
    /\ nullifierWins = [n \in Nullifiers |-> 0]
    /\ execWins = [i \in RequestIds |-> 0]
    /\ insertWins = [g \in Gids |-> 0]
    /\ leaves = [g \in Gids |-> <<>>]
    /\ createWins = 0
    /\ indexWins = [i \in RequestIds |-> 0]
    /\ reentry = NoReentry
    /\ MessagePosted = <<>>
    /\ credits = [u \in Users |-> 0]
    /\ flagCount = [h \in ContentHashes |-> 0]
    /\ hasUserFlagged = {}

\* Relayers and depositors that are contracts calling back from the payout.
NextReenter ==
    \/ \E c \in Users, n \in Nullifiers, m \in Messages :
          \E s \in HonestSubmissions(n, m, messageCounter) :
             createRelayRequest(c, s.root, n, s.proof, m, COST_PER_MESSAGE + 1,
                                messageCounter)
    \/ \E c \in Users, id \in RequestIds :
          \/ \E nested \in RequestIds : executeRelayReentrant(c, id, nested, TRUE)
          \/ executeRelayReentrant(c, id, id, FALSE)
    \/ \E c \in Users, runs \in BOOLEAN : withdrawDepositReentrant(c, runs)

\* Fees offered in the contract with credits, which sets no floor on the fee.
CreditFees == {0, COST_PER_MESSAGE + 1}

\* The contract with credits: deposits, requests, executions, withdrawals.
NextCredits ==
    \/ \E c \in Users : initializeBoard(c)
    \/ \E c \in Users, ic \in Commitments, v \in JoinValues :
          joinGroupWithDepositCredits(c, ic, v)
    \/ \E c \in Users : \E v \in TopUpValues(c) : topUpDepositCredits(c, v)
    \/ \E c \in Users, n \in Nullifiers, m \in Messages, f \in CreditFees,
          i \in IndexInputs :
          \E s \in HonestSubmissions(n, m, i) :
             createRelayRequestCredits(c, s.root, n, s.proof, m, f, i)
    \/ \E c \in Users, id \in RequestIds : executeRelayCredits(c, id)
    \/ \E c \in Users : withdrawDepositCredits(c)

\* Moderation in the contract with credits: any account flags any content
\* hash, next to the board's set-up and deposit transactions.
NextFlags ==
    \/ \E c \in Flaggers, h \in ContentHashes : flagMessage(c, h)
    \/ \E c \in Users : initializeBoard(c)
    \/ \E c \in Users, ic \in Commitments, v \in JoinValues :
          joinGroupWithDepositCredits(c, ic, v)
    \/ \E c \in Users : withdrawDepositCredits(c)

Spec == Init /\ [][Next]_vars

SpecFlags == Init /\ [][NextFlags]_vars

SpecCredits == Init /\ [][NextCredits]_vars

SpecReenter == InitReenter /\ [][NextReenter]_vars

SpecRace == Init /\ [][NextRace]_vars

SpecCreate == Init /\ [][NextCreate]_vars

SpecRoots == Init /\ [][NextRoots]_vars

SpecVerify == Init /\ [][NextVerify]_vars

SpecLeaf == Init /\ [][NextLeaf]_vars

SpecTree == Init /\ [][NextTree]_vars

(* ------------------------------ claims --------------------------------- *)

GatedOps == {"executeRelay", "postMessageDirect"}

\* The request a stored id refers to is pending: written and not executed.
Pending(id) ==
    relayRequests[id].requester # ZeroAddr /\ ~relayRequests[id].executed

\* C1: for every nullifier, at most one executeRelay or postMessageDirect
\* call using it has ever succeeded.
TheoremC1 == \A n \in Nullifiers : nullifierWins[n] <= 1

\* Two requests carry the same nullifier, one was executed, and the
\* execution of the other has just been refused.
WitnessC1 ==
    \E i \in RequestIds, j \in RequestIds :
        /\ i # j
        /\ relayRequests[i].executed
        /\ Pending(j)
        /\ relayRequests[i].nullifierHash = relayRequests[j].nullifierHash
        /\ nullifierWins[relayRequests[i].nullifierHash] = 1
        /\ lastCall.op = "executeRelay" /\ lastCall.id = j
        /\ lastCall.err = "NullifierAlreadyUsed"

\* C2: a gated action in which the verifier answered false fails with
\* InvalidProof and commits nothing.
CounterexampleC2 ==
    [][lastCall'.op \in GatedOps /\ lastCall'.verifier = "rejected"
         => lastCall'.err = "InvalidProof" /\ UNCHANGED progVars]_vars

\* C3: executeRelay(id) succeeds at most once per id; a successful call is
\* the first one for its id, and every call on an executed request fails
\* with AlreadyExecuted.
TheoremC3 ==
    [][\A id \in RequestIds :
          /\ execWins'[id] <= 1
          /\ (lastCall'.op = "executeRelay" /\ lastCall'.id = id)
               => /\ relayRequests[id].executed
                       => lastCall'.err = "AlreadyExecuted"
                  /\ lastCall'.err = "OK"
                       => execWins[id] = 0 /\ execWins'[id] = 1]_vars

\* A second executeRelay of an executed request has just been refused.
WitnessC3 ==
    /\ lastCall.op = "executeRelay"
    /\ lastCall.id \in RequestIds
    /\ lastCall.err = "AlreadyExecuted"
    /\ relayRequests[lastCall.id].executed
    /\ execWins[lastCall.id] = 1

RECURSIVE PendingFeesUpTo(_, _)
PendingFeesUpTo(p, n) ==
    IF n < 0 THEN 0
    ELSE PendingFeesUpTo(p, n - 1)
           + (IF Pending(n) /\ relayRequests[n].requester = p
              THEN relayRequests[n].relayFee ELSE 0)

\* The sum of the fees of a principal's pending requests.
PendingFees(p) == PendingFeesUpTo(p, MaxMessages)

\* C4: every principal's deposit covers the fees of all of that principal's
\* pending requests.
CounterexampleC4 == \A p \in Users : deposits[p] >= PendingFees(p)

\* C5: a successful executeRelay lowers the requester's deposit by exactly
\* the request's fee and raises the calling executor's balance by exactly
\* that fee.
TheoremC5 ==
    [][(lastCall'.op = "executeRelay" /\ lastCall'.err = "OK")
         => LET request == relayRequests[lastCall'.id]
                executor == lastCall'.caller
            IN  /\ deposits[request.requester] - deposits'[request.requester]
                     = request.relayFee
                /\ wallet'[executor] - wallet[executor] = request.relayFee]_vars

\* A request with a fee above the message cost has just been executed by
\* someone other than its requester.
WitnessC5 ==
    /\ lastCall.op = "executeRelay" /\ lastCall.err = "OK"
    /\ relayRequests[lastCall.id].relayFee > COST_PER_MESSAGE
    /\ relayRequests[lastCall.id].requester # lastCall.caller

CounterexampleC7 ==
    [][(lastCall'.op \in GatedOps /\ lastCall'.nullifier \in nullifierHashes)
         => lastCall'.err = "NullifierAlreadyUsed"]_vars

\* C7 as amended: such a call never succeeds; executeRelay of a pending
\* request, and a direct post that passes the deposit and index checks, fail
\* with NullifierAlreadyUsed; executeRelay of an executed request fails with
\* AlreadyExecuted; a direct post fails with InsufficientBalance or StaleIndex
\* when the earlier check rejects it.
TheoremC7 ==
    [][/\ (lastCall'.op = "executeRelay" /\ lastCall'.nullifier \in nullifierHashes)
            => IF relayRequests[lastCall'.id].executed
               THEN lastCall'.err = "AlreadyExecuted"
               ELSE lastCall'.err = "NullifierAlreadyUsed"
       /\ (lastCall'.op = "postMessageDirect" /\ lastCall'.nullifier \in nullifierHashes)
            => lastCall'.err \in {"InsufficientBalance", "StaleIndex",
                                  "NullifierAlreadyUsed"}
       /\ \A c \in Users, r \in validRoots[BoardGid] \cup {BogusRoot},
             n \in nullifierHashes :
            deposits[c] >= COST_PER_MESSAGE
               => postMessageDirectErr(c, r, n, messageCounter)
                    = "NullifierAlreadyUsed"]_vars

\* A direct post and the execution of a pending request have met a consumed
\* nullifier: the last call was refused for it.
WitnessC7 ==
    /\ lastCall.op \in GatedOps
    /\ lastCall.err = "NullifierAlreadyUsed"
    /\ lastCall.nullifier \in nullifierHashes
    /\ nullifierWins[lastCall.nullifier] = 1

\* C8: executeRelay on an id that no createRelayRequest has written fails
\* with NotFound and changes nothing.
TheoremC8 ==
    [][\A id \in RequestIds :
          (lastCall'.op = "executeRelay" /\ lastCall'.id = id /\ id >= nextRequestId)
             => lastCall'.err = "NotFound" /\ UNCHANGED progVars]_vars

\* An executeRelay on an id past the last allocated one has just been refused,
\* while an allocated request is pending.
WitnessC8 ==
    /\ lastCall.op = "executeRelay"
    /\ lastCall.id >= nextRequestId
    /\ lastCall.err = "NotFound"
    /\ nextRequestId > 0
    /\ \E i \in RequestIds : Pending(i)

\* C9: a root that is valid for a group stays valid after every step.
TheoremC9 == [][\A g \in Gids : validRoots[g] \subseteq validRoots'[g]]_vars

\* A group has held three roots, and its admin has changed since creation.
WitnessC9 ==
    \E g \in Gids :
        /\ Cardinality(validRoots[g]) >= 3
        /\ groups[g].root \in validRoots[g]
        /\ lastCall.op = "updateGroupAdmin" /\ lastCall.err = "OK"

\* C10: size never exceeds 2^depth, the insert at size 2^depth - 1 succeeds,
\* and every insert attempted at size 2^depth fails with Full.
CounterexampleC10 ==
    [][\A g \in Gids :
          /\ groups'[g].size <= Pow2(groups'[g].depth)
          /\ (lastCall'.op = "addMember" /\ lastCall'.gid = g /\ groups[g].depth > 0)
               => /\ (groups[g].size = Pow2(groups[g].depth) - 1
                        /\ lastCall'.caller = groups[g].admin)
                       => lastCall'.err = "OK"
                  /\ groups[g].size = Pow2(groups[g].depth)
                       => lastCall'.err = "Full"]_vars

\* C10 as amended: size never exceeds 2^depth; an insert by the group's
\* admin succeeds at size 2^depth - 1 and fails with Full at size 2^depth;
\* an insert by anyone else fails with NotAdmin.
TheoremC10 ==
    [][\A g \in Gids :
          /\ groups'[g].size <= Pow2(groups'[g].depth)
          /\ (lastCall'.op = "addMember" /\ lastCall'.gid = g /\ groups[g].depth > 0)
               => IF lastCall'.caller = groups[g].admin
                  THEN /\ groups[g].size = Pow2(groups[g].depth) - 1
                            => lastCall'.err = "OK"
                       /\ groups[g].size = Pow2(groups[g].depth)
                            => lastCall'.err = "Full"
                  ELSE lastCall'.err = "NotAdmin"]_vars

\* The admin of a full group of the largest explored depth has just been
\* refused an insert.
WitnessC10 ==
    \E g \in Gids :
        /\ groups[g].depth = MaxTreeDepth
        /\ groups[g].size = Pow2(groups[g].depth)
        /\ lastCall.op = "addMember" /\ lastCall.gid = g
        /\ lastCall.caller = groups[g].admin
        /\ lastCall.err = "Full"

CreateOps == {"createGroup", "initializeBoard"}

InsertOps == {"addMember", "joinGroupWithDeposit"}

\* The last transaction was a successful call of one of ops on group g.
Succeeded(ops, g) ==
    lastCall.op \in ops /\ lastCall.gid = g /\ lastCall.err = "OK"

\* C11: the valid-root set of a group grows by exactly one entry at group
\* creation (the empty-tree root) and by exactly one new entry, the new root,
\* on every successful insert.
CounterexampleC11 ==
    [][\A g \in Gids :
          /\ Succeeded(CreateOps, g)'
               => /\ groups'[g].root = EmptyRoot(g, groups'[g].depth)
                  /\ groups'[g].root \notin validRoots[g]
                  /\ validRoots'[g] = validRoots[g] \cup {groups'[g].root}
          /\ Succeeded(InsertOps, g)'
               => /\ groups'[g].root \notin validRoots[g]
                  /\ validRoots'[g] = validRoots[g] \cup {groups'[g].root}]_vars

\* C11 as amended: the set grows by one entry, the empty-tree root, at group
\* creation; a successful insert of a commitment other than the group's
\* empty-leaf value adds exactly one new entry, the new root; a successful
\* insert of the empty-leaf value leaves the root and the set as they were.
TheoremC11 ==
    [][\A g \in Gids :
          /\ Succeeded(CreateOps, g)'
               => /\ groups'[g].root = EmptyRoot(g, groups'[g].depth)
                  /\ groups'[g].root \notin validRoots[g]
                  /\ validRoots'[g] = validRoots[g] \cup {groups'[g].root}
          /\ \A c \in Users \cup {Board}, ic \in LeafInputs(g) :
                (addMemberErr(c, g) = "OK" /\ Succeeded(InsertOps, g)'
                   /\ groups' = addMemberGroups(g, ic))
                  => /\ validRoots'[g] = validRoots[g] \cup {groups'[g].root}
                     /\ IF ic = ZeroLeaf(g)
                        THEN groups'[g].root = groups[g].root
                             /\ validRoots'[g] = validRoots[g]
                        ELSE groups'[g].root \notin validRoots[g]]_vars

\* A group holds two members and two valid roots: one insert carried the
\* empty-leaf value, the other a commitment, and the last one has just
\* succeeded.
WitnessC11 ==
    \E g \in Gids :
        /\ Succeeded({"addMember"}, g)
        /\ groups[g].size = 2
        /\ Cardinality(validRoots[g]) = 2

\* C12: each successful insert increases the group's size by exactly 1, no
\* other step changes it, and size equals the number of successful inserts.
TheoremC12 ==
    [][\A g \in Gids :
          /\ groups'[g].size
                = groups[g].size + (IF Succeeded(InsertOps, g)' THEN 1 ELSE 0)
          /\ groups'[g].size = insertWins'[g]]_vars

\* A group that took two inserts has just refused a second creation.
WitnessC12 ==
    \E g \in Gids :
        /\ groups[g].size = 2 /\ insertWins[g] = 2
        /\ lastCall.op = "createGroup" /\ lastCall.gid = g
        /\ lastCall.err = "AlreadyExists"

\* A second tree of the given id and depth, built on its own: createGroup
\* followed by one addMember per leaf of the sequence, as Semaphore.sol runs
\* them.
RECURSIVE Replay(_, _, _)
Replay(gid, depth, inserted) ==
    IF inserted = <<>>
    THEN [root |-> EmptyRoot(gid, depth),
          filledSubtrees |-> [i \in 1 .. depth |-> 0]]
    ELSE LET n == Len(inserted)
             before == Replay(gid, depth, SubSeq(inserted, 1, n - 1))
             w == InsertWalk(0, depth, n - 1, inserted[n],
                             before.filledSubtrees, ZerosUpTo(gid, depth))
         IN  [root |-> w.node, filledSubtrees |-> w.filledSubtrees]

TheoremC14 ==
    [][lastCall'.op = "addMember"
         => /\ lastCall'.caller # groups[lastCall'.gid].admin
                 => /\ lastCall'.err = "NotAdmin"
                    /\ UNCHANGED <<progVars, insertWins, leaves>>
            /\ (lastCall'.gid = BoardGid /\ groups[BoardGid].admin = Board)
                 => lastCall'.err = "NotAdmin"
            /\ groups[lastCall'.gid].depth = 0
                 => lastCall'.err = "NotAdmin"]_vars

\* An account has just been refused a direct insert into the board's group,
\* which holds a member, while the other group id was never created.
WitnessC14 ==
    /\ lastCall.op = "addMember" /\ lastCall.gid = BoardGid
    /\ lastCall.err = "NotAdmin"
    /\ groups[BoardGid].admin = Board
    /\ groups[BoardGid].size = 1
    /\ groups[OtherGid].depth = 0

\* C15: createGroup succeeds exactly when the id has no group and the depth
\* is within [1, 32]; on an id that has a group it fails with AlreadyExists,
\* whatever depth and admin it passes, and changes nothing; with a depth
\* outside the range it fails with InvalidDepth, changes nothing, and a valid
\* createGroup for the id would still succeed.
TheoremC15 ==
    [][lastCall'.op = "createGroup"
         => LET c == lastCall'.caller
                g == lastCall'.gid
            IN  \A d \in DepthInputs, a \in Users :
                   createGroup(c, g, d, a)
                     => /\ lastCall'.err = "OK"
                             <=> (groups[g].depth = 0 /\ d >= MinDepth /\ d <= MaxDepth)
                        /\ groups[g].depth # 0
                             => /\ lastCall'.err = "AlreadyExists"
                                /\ UNCHANGED progVars
                        /\ (groups[g].depth = 0 /\ ~(d >= MinDepth /\ d <= MaxDepth))
                             => /\ lastCall'.err = "InvalidDepth"
                                /\ UNCHANGED progVars
                                /\ \A h \in Gids :
                                      h = g => createGroupErr(h, MinDepth)' = "OK"]_vars

\* A group that holds a member has just refused a second creation, sent by
\* an account other than its admin.
WitnessC15 ==
    \E g \in Gids :
        /\ lastCall.op = "createGroup" /\ lastCall.gid = g
        /\ lastCall.err = "AlreadyExists"
        /\ groups[g].size > 0
        /\ groups[g].admin # lastCall.caller

\* C16: verifyProof on a root that is not in the group's own valid-root set
\* fails with UnknownRoot without consulting the verifier, also when the root
\* is valid for another group and when the group does not exist.
TheoremC16 ==
    [][lastCall'.op = "verifyProof"
         => LET c == lastCall'.caller
                g == lastCall'.gid
                n == lastCall'.nullifier
            IN  \A r \in RootInputs \ validRoots[g], m \in Messages :
                   \A p \in ProofInputs(g, r, n, m, messageCounter) :
                      verifyProofCall(c, g, r, SignalOf(m), n, messageCounter, p)
                        => /\ lastCall'.err = "UnknownRoot"
                           /\ lastCall'.verifier = "notCalled"
                           /\ UNCHANGED progVars]_vars

\* A call on a group that does not exist has just been refused while the
\* other group holds three valid roots, each of which was among the roots
\* tried.
WitnessC16 ==
    \E g \in Gids, h \in Gids :
        /\ lastCall.op = "verifyProof" /\ lastCall.gid = g
        /\ lastCall.err = "UnknownRoot"
        /\ groups[g].depth = 0
        /\ Cardinality(validRoots[h]) = 3

RaceOutcome(i, earlier, strict) ==
    /\ lastCall'.err = "OK"
         => /\ i = messageCounter
            /\ indexWins[i] = 0
            /\ messageCounter' = messageCounter + 1
    /\ indexWins[i] >= 1
         => IF strict \/ earlier = "OK"
            THEN lastCall'.err = "StaleIndex"
            ELSE lastCall'.err = earlier

\* Every create or direct post of the step, with the index it carries.
RaceStep(strict) ==
    LET n == lastCall'.nullifier IN
    /\ \A i \in RequestIds : indexWins'[i] = IF i < messageCounter' THEN 1 ELSE 0
    /\ lastCall'.op = "createRelayRequest"
         => \A c \in Users, m \in Messages, f \in Fees, i \in RaceIndexInputs :
               \A s \in HonestSubmissions(n, m, i) :
                  createRelayRequest(c, s.root, n, s.proof, m, f, i)
                    => RaceOutcome(i,
                          IF ~(f >= COST_PER_MESSAGE) THEN "InsufficientFee"
                          ELSE IF ~(deposits[c] >= f) THEN "InsufficientBalance"
                          ELSE "OK", strict)
    /\ lastCall'.op = "postMessageDirect"
         => \A c \in Users, m \in Messages, i \in RaceIndexInputs :
               \A s \in HonestSubmissions(n, m, i) :
                  postMessageDirect(c, s.root, n, s.proof, m, i)
                    => RaceOutcome(i,
                          IF ~(deposits[c] >= COST_PER_MESSAGE)
                          THEN "InsufficientBalance" ELSE "OK", strict)

\* C19: of the createRelayRequest and postMessageDirect calls that carry the
\* same messageIndex at most one succeeds, and every other one fails with
\* StaleIndex; the counter is read and incremented in one step.
CounterexampleC19 == [][RaceStep(TRUE)]_vars

\* C19 as amended: at most one of them succeeds, with the counter read and
\* incremented in one step; once one has succeeded every other one fails,
\* with StaleIndex when it passes the fee and deposit checks that come before
\* the index check, with InsufficientFee or InsufficientBalance otherwise.
TheoremC19 == [][RaceStep(FALSE)]_vars

\* A direct post has won the first index, and a request carrying an index
\* already won has just been refused.
WitnessC19 ==
    /\ lastCall.op = "createRelayRequest"
    /\ lastCall.err = "StaleIndex"
    /\ messageCounter = 1 /\ indexWins[0] = 1
    /\ createWins = 0 /\ messageCount = 1

\* The request that createRelayRequest stores for its arguments.
StoredRequest(c, merkleTreeRoot, n, proof, m, f, i) ==
    [merkleTreeRoot |-> merkleTreeRoot, nullifierHash |-> n, proof |-> proof,
     message |-> m, relayFee |-> f, requester |-> c, executed |-> FALSE,
     messageIndex |-> i]

\* C20: the k-th successful createRelayRequest, counting from 0, writes slot
\* k: nextRequestId is the number of successful creates, the slot was never
\* written before and holds the supplied root, nullifier hash, proof,
\* message, fee and index with requester = caller and executed = false,
\* messageCounter grows by one, and no other slot changes; no other step
\* moves nextRequestId or rewrites a stored request, apart from the executed
\* flag.
TheoremC20 ==
    [][/\ nextRequestId' = createWins'
       /\ IF lastCall'.op = "createRelayRequest" /\ lastCall'.err = "OK"
          THEN /\ nextRequestId = createWins
               /\ nextRequestId' = nextRequestId + 1
               /\ messageCounter' = messageCounter + 1
               /\ relayRequests[nextRequestId] = EmptyRequest
               /\ \A j \in RequestIds \ {nextRequestId} :
                     relayRequests'[j] = relayRequests[j]
               /\ \A c \in Users, m \in Messages, f \in FeeInputs, i \in IndexInputs :
                     \A s \in HonestSubmissions(lastCall'.nullifier, m, i) :
                        createRelayRequest(c, s.root, lastCall'.nullifier, s.proof, m, f, i)
                          => relayRequests'[nextRequestId]
                               = StoredRequest(c, s.root, lastCall'.nullifier,
                                               s.proof, m, f, i)
          ELSE /\ nextRequestId' = nextRequestId
               /\ \A j \in RequestIds :
                     relayRequests'[j]
                       = [relayRequests[j] EXCEPT !.executed = relayRequests'[j].executed]]_vars

\* The second request has just been created, by an account other than the
\* requester of the first, which is already executed.
WitnessC20 ==
    /\ lastCall.op = "createRelayRequest" /\ lastCall.err = "OK"
    /\ nextRequestId = 2 /\ createWins = 2
    /\ relayRequests[0].executed
    /\ Pending(1)
    /\ relayRequests[1].requester # relayRequests[0].requester

\* C21: a stored request changes only by executed going from false to true,
\* in a successful executeRelay of its id: it is never deleted, never
\* pending again, and its other fields never change after creation.
TheoremC21 ==
    [][\A j \in RequestIds :
          relayRequests[j].requester # ZeroAddr
            => \/ relayRequests'[j] = relayRequests[j]
               \/ /\ ~relayRequests[j].executed
                  /\ relayRequests'[j] = [relayRequests[j] EXCEPT !.executed = TRUE]
                  /\ lastCall'.op = "executeRelay" /\ lastCall'.id = j
                  /\ lastCall'.err = "OK"]_vars

\* The first request is executed and the second pending, after a withdrawal
\* that emptied the requester's deposit.
WitnessC21 ==
    /\ relayRequests[0].executed
    /\ Pending(1)
    /\ lastCall.op = "withdrawDeposit" /\ lastCall.err = "OK"
    /\ deposits[relayRequests[1].requester] = 0

Joined(c) == deposits[c] > 0

\* C24: joinGroupWithDeposit fails with BelowMinimum only on the caller's
\* first join with an amount under the minimum; in every other case, a later
\* call with an amount under the minimum included, it adds the amount to the
\* caller's deposit.
CounterexampleC24 ==
    [][(lastCall'.op = "joinGroupWithDeposit" /\ initialized)
         => \A c \in Users, ic \in Commitments, v \in RejoinValues :
               joinGroupWithDeposit(c, ic, v)
                 => IF v < MIN_DEPOSIT /\ ~Joined(c)
                    THEN lastCall'.err = "BelowMinimum"
                    ELSE /\ lastCall'.err = "OK"
                         /\ deposits' = [deposits EXCEPT ![c] = @ + v]]_vars

\* C24 as amended: joinGroupWithDeposit fails with BelowMinimum on every
\* call with an amount under the minimum, whether or not the caller has
\* joined before, and changes nothing; with at least the minimum, on the
\* initialised board, it adds the amount to the caller's deposit and to
\* nobody else's.
TheoremC24 ==
    [][lastCall'.op = "joinGroupWithDeposit"
         => \A c \in Users, ic \in Commitments, v \in RejoinValues :
               joinGroupWithDeposit(c, ic, v)
                 => IF v < MIN_DEPOSIT
                    THEN /\ lastCall'.err = "BelowMinimum"
                         /\ UNCHANGED progVars
                    ELSE initialized
                           => /\ lastCall'.err = "OK"
                              /\ deposits' = [deposits EXCEPT ![c] = @ + v]]_vars

\* An account has joined with the minimum, its wallet is spent, and a call
\* with less than the minimum has just been refused.
WitnessC24 ==
    /\ initialized
    /\ lastCall.op = "joinGroupWithDeposit" /\ lastCall.err = "BelowMinimum"
    /\ \E c \in Users : Joined(c) /\ deposits[c] = MIN_DEPOSIT
    /\ \A c \in Users : wallet[c] = 0

\* C25: a successful postMessageDirect by c takes exactly COST_PER_MESSAGE
\* from deposits[c] and from nobody else, marks the nullifier used, adds 1 to
\* messageCounter and to messageCount, and leaves nextRequestId and every
\* stored request as they were.
TheoremC25 ==
    [][(lastCall'.op = "postMessageDirect" /\ lastCall'.err = "OK")
         => LET c == lastCall'.caller IN
            /\ deposits' = [deposits EXCEPT ![c] = @ - COST_PER_MESSAGE]
            /\ nullifierHashes' = nullifierHashes \cup {lastCall'.nullifier}
            /\ lastCall'.nullifier \notin nullifierHashes
            /\ messageCounter' = messageCounter + 1
            /\ messageCount' = messageCount + 1
            /\ UNCHANGED <<nextRequestId, relayRequests>>]_vars

\* A direct post has just succeeded while a request with a fee above the
\* message cost was pending and the other account held a deposit.
WitnessC25 ==
    /\ lastCall.op = "postMessageDirect" /\ lastCall.err = "OK"
    /\ \E id \in RequestIds :
          Pending(id) /\ relayRequests[id].relayFee > COST_PER_MESSAGE
    /\ nextRequestId = 1 /\ messageCounter = 2
    /\ deposits[lastCall.caller] = MIN_DEPOSIT - COST_PER_MESSAGE

\* C26: createRelayRequest, successful or not, changes no deposit and moves
\* no ether; a deposit is lowered only by a successful executeRelay of a
\* request of that principal, by that request's fee, by the principal's own
\* successful direct post, or by the principal's own withdrawal, so a
\* request that is never executed takes nothing from the ledger.
TheoremC26 ==
    [][/\ lastCall'.op = "createRelayRequest"
            => UNCHANGED <<deposits, boardBalance, wallet>>
       /\ \A p \in Users :
            deposits'[p] < deposits[p]
              => /\ lastCall'.err = "OK"
                 /\ \/ /\ lastCall'.op = "executeRelay"
                       /\ relayRequests[lastCall'.id].requester = p
                       /\ deposits[p] - deposits'[p]
                            = relayRequests[lastCall'.id].relayFee
                    \/ /\ lastCall'.op \in {"postMessageDirect", "withdrawDeposit"}
                       /\ lastCall'.caller = p]_vars

\* A request has just been created with a fee above the message cost, and
\* the requester's deposit is still the whole amount paid in.
WitnessC26 ==
    /\ lastCall.op = "createRelayRequest" /\ lastCall.err = "OK"
    /\ nextRequestId >= 1
    /\ relayRequests[nextRequestId - 1].relayFee > COST_PER_MESSAGE
    /\ relayRequests[nextRequestId - 1].requester = lastCall.caller
    /\ deposits[lastCall.caller] = MIN_DEPOSIT
    /\ boardBalance = MIN_DEPOSIT

\* C27: messageCounter never decreases; it grows by exactly 1 in each
\* successful createRelayRequest and each successful postMessageDirect and
\* is unchanged by every other call and by every failed call.
TheoremC27 ==
    [][IF lastCall'.op \in {"createRelayRequest", "postMessageDirect"}
          /\ lastCall'.err = "OK"
       THEN messageCounter' = messageCounter + 1
       ELSE messageCounter' = messageCounter]_vars

\* The counter stands at 2 after one request and one direct post, and a
\* request has since been executed and a deposit withdrawn.
WitnessC27 ==
    /\ messageCounter = 2
    /\ createWins = 1
    /\ \E id \in RequestIds : relayRequests[id].executed
    /\ messageCount = 2
    /\ lastCall.op = "withdrawDeposit" /\ lastCall.err = "OK"

\* C28: the set of used nullifiers only grows; a nullifier enters it only in
\* a successful executeRelay or postMessageDirect that uses it, which is the
\* first such call for that nullifier, and it is never removed;
\* createRelayRequest, successful or not, marks nothing.
TheoremC28 ==
    [][/\ nullifierHashes \subseteq nullifierHashes'
       /\ \A n \in Nullifiers :
            /\ n \in nullifierHashes' \ nullifierHashes
                 => /\ lastCall'.op \in {"executeRelay", "postMessageDirect"}
                    /\ lastCall'.err = "OK"
                    /\ lastCall'.nullifier = n
                    /\ nullifierWins[n] = 0 /\ nullifierWins'[n] = 1
            /\ n \in nullifierHashes => nullifierWins'[n] = nullifierWins[n]
       /\ lastCall'.op = "createRelayRequest"
            => nullifierHashes' = nullifierHashes]_vars

\* Both nullifiers are used, one by a relayed request and one by a direct
\* post, and a second execution of the relayed request has just been refused.
WitnessC28 ==
    /\ nullifierHashes = Nullifiers
    /\ \E id \in RequestIds : relayRequests[id].executed
    /\ messageCount = 2 /\ createWins = 1
    /\ lastCall.op = "executeRelay" /\ lastCall.err = "AlreadyExecuted"

\* The outcomes of executeRelay.
ExecuteRelayOutcomes ==
    {"OK", "AlreadyExecuted", "NotFound", "NullifierAlreadyUsed", "UnknownRoot",
     "ArithmeticUnderflow", "TransferFailed"}

TheoremC30 ==
    [][/\ initialized => initialized'
       /\ (lastCall'.op = "initializeBoard" /\ lastCall'.err = "OK")
            => ~initialized /\ initialized'
       /\ (lastCall'.op = "initializeBoard" /\ initialized)
            => lastCall'.err = "AlreadyInitialized" /\ UNCHANGED progVars
       /\ initialized'
            => /\ groups'[BoardGid].admin = Board
               /\ groups'[BoardGid].depth = BoardDepth]_vars

\* A second initializeBoard has just been refused on a board that has a
\* member.
WitnessC30 ==
    /\ initialized
    /\ lastCall.op = "initializeBoard" /\ lastCall.err = "AlreadyInitialized"
    /\ groups[BoardGid].size = 1
    /\ groups[BoardGid].admin = Board

\* C31: in the contract with credits a successful createRelayRequest takes
\* exactly 1 from the requester's credits and leaves everybody else's as
\* they were, and a createRelayRequest by an account with no credits fails.
TheoremC31 ==
    [][lastCall'.op = "createRelayRequest"
         => /\ lastCall'.err = "OK"
                 => credits' = [credits EXCEPT ![lastCall'.caller] = @ - 1]
            /\ \A c \in Users, n \in Nullifiers, m \in Messages,
                  f \in CreditFees, i \in IndexInputs :
                  \A s \in HonestSubmissions(n, m, i) :
                     (credits[c] = 0
                        /\ createRelayRequestCredits(c, s.root, n, s.proof, m, f, i))
                       => lastCall'.err = "InsufficientCredits"
                            /\ UNCHANGED <<progVars, creditVars>>]_vars

\* A request has just been created by an account whose credits went from
\* the 50 of the minimum deposit to 49 while the other account has none.
WitnessC31 ==
    /\ lastCall.op = "createRelayRequest" /\ lastCall.err = "OK"
    /\ credits[lastCall.caller] = MIN_DEPOSIT \div COST_PER_MESSAGE - 1
    /\ \E p \in Users : p # lastCall.caller /\ credits[p] = 0
    /\ Pending(0)

\* C32: in the contract with credits, every account's credits equal its
\* deposit divided by the cost of a message, in every reachable state.
CounterexampleC32 ==
    \A p \in Users : credits[p] = deposits[p] \div COST_PER_MESSAGE

\* The node at a level of the complete tree all of whose leaves are the
\* group's empty-leaf value.
RECURSIVE EmptyNode(_, _)
EmptyNode(gid, level) ==
    IF level = 0 THEN ZeroLeaf(gid)
    ELSE LET below == EmptyNode(gid, level - 1)
         IN  PoseidonHash(below, below)

\* The node at (level, index) of the complete binary tree whose leaves are
\* the inserted sequence followed by empty leaves: leaf 2k is the left child
\* and leaf 2k+1 the right child of node k one level up. A subtree that
\* holds no inserted leaf is the empty subtree of its level.
RECURSIVE FullNode(_, _, _, _)
FullNode(gid, level, index, inserted) ==
    IF index * Pow2(level) >= Len(inserted) THEN EmptyNode(gid, level)
    ELSE IF level = 0 THEN inserted[index + 1]
    ELSE PoseidonHash(FullNode(gid, level - 1, 2 * index, inserted),
                      FullNode(gid, level - 1, 2 * index + 1, inserted))

\* C33: after creation and after any sequence of successful inserts, the
\* group's root is the root of the complete binary Merkle tree of the
\* group's depth whose first size leaves are the inserted values in
\* insertion order and whose other leaves are the empty-leaf value.
TheoremC33 ==
    \A g \in Gids :
        groups[g].depth > 0
          => /\ groups[g].size = Len(leaves[g])
             /\ groups[g].root = FullNode(g, groups[g].depth, 0, leaves[g])

\* A group of the largest explored depth is full, its leaves not all equal,
\* after an insert at an odd and at an even position.
WitnessC33 ==
    \E g \in Gids :
        /\ groups[g].depth = MaxTreeDepth
        /\ groups[g].size = Pow2(MaxTreeDepth)
        /\ \E i, j \in 1 .. Len(leaves[g]) : leaves[g][i] # leaves[g][j]
        /\ Succeeded({"addMember"}, g)

\* C34: after every step the current root of every existing group is in
\* that group's valid-root set, from creation on and after every insert, so
\* verifyProof on the group's latest root never fails with UnknownRoot.
TheoremC34 ==
    [][/\ \A g \in Gids :
            groups'[g].depth > 0 => groups'[g].root \in validRoots'[g]
       /\ lastCall'.op = "verifyProof"
            => LET c == lastCall'.caller
                   g == lastCall'.gid
                   n == lastCall'.nullifier
                   r == groups[g].root
               IN  \A m \in Messages :
                      \A p \in ProofInputs(g, r, n, m, messageCounter) :
                         (groups[g].depth > 0
                            /\ verifyProofCall(c, g, r, SignalOf(m), n,
                                               messageCounter, p))
                           => lastCall'.err # "UnknownRoot"]_vars

\* A proof against the latest root of a group that took two inserts has
\* just reached the verifier.
WitnessC34 ==
    \E g \in Gids :
        /\ groups[g].size = 2
        /\ Cardinality(validRoots[g]) = 3
        /\ lastCall.op = "verifyProof" /\ lastCall.gid = g
        /\ lastCall.err = "OK"

\* The sum of the deposits of a set of accounts.
RECURSIVE DepositsOf(_)
DepositsOf(accounts) ==
    IF accounts = {} THEN 0
    ELSE LET p == CHOOSE q \in accounts : TRUE
         IN  deposits[p] + DepositsOf(accounts \ {p})

\* C35: in every reachable state the ether held by the board is at least
\* the sum of all deposits, so the withdrawDeposit of any account with a
\* positive deposit can be paid in full.
TheoremC35 ==
    /\ boardBalance >= DepositsOf(Users)
    /\ \A p \in Users : deposits[p] > 0 => withdrawDepositErr(p) = "OK"

\* A deposit is still held after a relayed request of its owner was paid
\* out of the board and a direct post was charged, and the board holds
\* more than the deposits.
WitnessC35 ==
    /\ \E id \in RequestIds : relayRequests[id].executed
    /\ messageCount = 2 /\ createWins = 1
    /\ \E p \in Users : deposits[p] > 0
    /\ boardBalance > DepositsOf(Users)

\* The number of successful calls recorded in a history counter.
RECURSIVE WinsOf(_, _)
WinsOf(wins, keys) ==
    IF keys = {} THEN 0
    ELSE LET k == CHOOSE x \in keys : TRUE
         IN  wins[k] + WinsOf(wins, keys \ {k})

\* The successful direct posts: the successful gated calls that were not
\* executions of a request.
DirectPosts == WinsOf(nullifierWins, Nullifiers) - WinsOf(execWins, RequestIds)

\* C36: in every reachable state messageCount is the number of executed
\* requests plus the number of successful direct posts, which is the number
\* of used nullifiers, and messageCount is at most messageCounter.
TheoremC36 ==
    /\ messageCount
         = Cardinality({id \in RequestIds : relayRequests[id].executed}) + DirectPosts
    /\ messageCount = Cardinality(nullifierHashes)
    /\ messageCount <= messageCounter

\* One direct post was made and the request created before it is still
\* pending: the count of messages is below the counter.
WitnessC36 ==
    /\ DirectPosts = 1
    /\ messageCount = 1
    /\ messageCounter = 2
    /\ \E id \in RequestIds :
          Pending(id) /\ relayRequests[id].messageIndex = 0

\* C37: the messageId values of the MessagePosted events are 0, 1, 2, ... in
\* emission order, whatever the interleaving of executeRelay and
\* postMessageDirect, and a call that fails emits no event.
TheoremC37 ==
    [][/\ \A i \in 1..Len(MessagePosted') : MessagePosted'[i] = i - 1
       /\ lastCall'.err # "OK" => MessagePosted' = MessagePosted]_vars

\* A direct post and a relayed execution have each emitted an event, and the
\* last call was refused.
WitnessC37 ==
    /\ MessagePosted = <<0, 1>>
    /\ DirectPosts = 1
    /\ \E id \in RequestIds : relayRequests[id].executed
    /\ lastCall.err # "OK"

\* A pending request whose nullifier a successful executeRelay or
\* postMessageDirect has already used.
Superseded(id) ==
    Pending(id) /\ nullifierWins[relayRequests[id].nullifierHash] >= 1

\* C38: once a relayed execution or a direct post with a nullifier has
\* succeeded, every pending request carrying that nullifier stays as it is
\* in every later step, and each executeRelay of it fails with
\* NullifierAlreadyUsed; two such requests can be pending together, as the
\* witness shows.
TheoremC38 ==
    [][\A id \in RequestIds :
          Superseded(id)
            => /\ Superseded(id)'
               /\ relayRequests'[id] = relayRequests[id]
               /\ (lastCall'.op = "executeRelay" /\ lastCall'.id = id)
                     => lastCall'.err = "NullifierAlreadyUsed"]_vars

\* Two requests with the same nullifier were created; one has been executed
\* and the executeRelay of the other has just been refused.
WitnessC38 ==
    \E id1, id2 \in RequestIds :
       /\ id1 # id2
       /\ relayRequests[id1].nullifierHash = relayRequests[id2].nullifierHash
       /\ relayRequests[id1].executed
       /\ Pending(id2)
       /\ lastCall.op = "executeRelay"
       /\ lastCall.id = id2
       /\ lastCall.err = "NullifierAlreadyUsed"

\* What an updateGroupAdmin step must satisfy whatever the new admin can do
\* afterwards: it succeeds exactly when the caller is the stored admin, a
\* refused call changes nothing, and an accepted one changes the admin field
\* of that group only.
AdminChangeFrame(g) ==
    /\ lastCall'.err = "OK" <=> lastCall'.caller = groups[g].admin
    /\ lastCall'.err # "OK" => UNCHANGED progVars
    /\ lastCall'.err = "OK"
         => /\ groups' = [groups EXCEPT ![g].admin = groups'[g].admin]
            /\ UNCHANGED <<validRoots, boardVars, etherVars>>

\* C39 as stated: after every successful change the previous admin's
\* inserts fail with NotAdmin and the new admin's inserts succeed.
CounterexampleC39 ==
    [][\A g \in Gids, old \in Users, new \in Users :
          (/\ lastCall'.op = "updateGroupAdmin" /\ lastCall'.gid = g
           /\ lastCall'.caller = old /\ lastCall'.err = "OK"
           /\ groups'[g].admin = new)
            => /\ addMemberErr(old, g)' = "NotAdmin"
               /\ addMemberErr(new, g)' = "OK"]_vars

\* C39: only the stored admin of a group changes its admin, and a refused
\* updateGroupAdmin (any other caller, or a group that was never created)
\* changes nothing. A successful change writes the admin field only: the
\* new admin's insert gets the outcome the previous admin's insert had
\* before the change (OK, or Full when the tree is full), and the previous
\* admin's insert fails with NotAdmin when the new admin is someone else.
TheoremC39 ==
    [][\A g \in Gids :
          (lastCall'.op = "updateGroupAdmin" /\ lastCall'.gid = g)
            => /\ AdminChangeFrame(g)
               /\ \A old \in Users, new \in Users :
                     (/\ lastCall'.caller = old /\ lastCall'.err = "OK"
                      /\ groups'[g].admin = new)
                       => /\ addMemberErr(new, g)' = addMemberErr(old, g)
                          /\ addMemberErr(new, g)' \in {"OK", "Full"}
                          /\ new # old => addMemberErr(old, g)' = "NotAdmin"]_vars

\* The admin of a group that has a member and room for more has just handed
\* the group to someone else.
WitnessC39 ==
    \E g \in Gids :
       /\ lastCall.op = "updateGroupAdmin" /\ lastCall.gid = g
       /\ lastCall.err = "OK"
       /\ groups[g].admin \in Users \ {lastCall.caller}
       /\ groups[g].size = 1
       /\ addMemberErr(groups[g].admin, g) = "OK"
       /\ addMemberErr(lastCall.caller, g) = "NotAdmin"

\* The accounts that have flagged the content hash h.
FlaggedBy(h) == {u \in Flaggers : <<u, h>> \in hasUserFlagged}

\* C40: a flagMessage by a principal that has already flagged the content
\* hash fails and changes nothing; flagCount[h] is the number of principals
\* that have flagged h and never decreases; isMessageHidden(h) holds exactly
\* when flagCount[h] >= 3, and a hidden message stays hidden.
TheoremC40 ==
    [][/\ \A h \in ContentHashes :
             /\ flagCount'[h] = Cardinality(FlaggedBy(h)')
             /\ flagCount'[h] >= flagCount[h]
             /\ isMessageHidden(h)' <=> flagCount'[h] >= 3
             /\ isMessageHidden(h) => isMessageHidden(h)'
       /\ lastCall'.op = "flagMessage"
            => \A u \in Flaggers, h \in ContentHashes :
                  (flagMessage(u, h) /\ <<u, h>> \in hasUserFlagged)
                    => /\ lastCall'.err = "AlreadyFlagged"
                       /\ UNCHANGED <<progVars, creditVars>>]_vars

\* Three principals have flagged a message, which is hidden, and the second
\* flag of one of them has just been refused; the other message has fewer
\* flags and is visible.
WitnessC40 ==
    \E h \in ContentHashes, g \in ContentHashes :
       /\ Cardinality(FlaggedBy(h)) = 3
       /\ isMessageHidden(h)
       /\ lastCall.op = "flagMessage" /\ lastCall.id = h
       /\ lastCall.err = "AlreadyFlagged"
       /\ flagCount[g] = 2
       /\ ~isMessageHidden(g)

====
